---- MODULE Spec2Model ----
(***************************************************************************)
(* vs_opc PLC gateway: the poll / reconnect engine, the tag store, the     *)
(* readiness flag and the OPC UA bridge, modelled from                     *)
(* src/vs_opc/plc_gateway_server.py, src/vs_opc/api.py and                 *)
(* src/vs_opc/tag_store.py.                                                *)
(*                                                                         *)
(* Time is the integer number of seconds since the epoch; a synchronous    *)
(* function that runs without suspension reads one value of the clock.     *)
(* The value a driver returns for an address is written as that address,   *)
(* so a stored value tells which address it was read from.                 *)
(*                                                                         *)
(* In a run with the library drivers one controller (adverse) is the one   *)
(* whose connection and reads may fail; the other connects at startup and  *)
(* its reads succeed.  The tags of a run belong to one controller.         *)
(***************************************************************************)
EXTENDS Integers, Sequences, FiniteSets, TLC

VARIABLES
    GATEWAY_MOCK_PLC,            \* env flag, read at run time
    GATEWAY_MOCK_FAIL_RECONNECT, \* env flag, read at run time
    READY_FILE,                  \* TRUE when the env names a readiness file
    RECONNECT_BASE,              \* module global, from the env
    RECONNECT_MAX,               \* module global, from the env
    adverse,                     \* the controller whose driver may fail in this run
    now,                         \* time.time()
    plc_health,                  \* [PLC -> health record]
    driver,                      \* the poller's compact_driver / slc_driver
    store_tags,                  \* TagStore._tags, in insertion order
    store_values,                \* TagStore._values
    opcua_vars,                  \* ordered dict: <<[tag_id, value held by the node]>>
    write_todo,                  \* the poller's list(opcua_vars.items()) still to write
    pc,                          \* position of run_opcua_server / plc_data_poller
    pending,                     \* PLCs whose read worker thread is running
    shutdown_event,              \* threading.Event
    shutdown_scheduled,          \* _shutdown_gateway submitted to the OPC UA loop
    server_ready,
    plc_last_update,
    ready_file_writes,           \* number of times READY_FILE was written
    cycles,                      \* poll cycles run to their end
    step,                        \* the step just taken, and the path it took
    opc_tasks,                   \* coroutines submitted to the OPC UA loop
    mirror_todo,                 \* run_opcua_server's list_tags() still to mirror
    backoff_arg,                 \* argument of a direct compute_backoff_delay call
    backoff_ret,                 \* its result
    server_stopped,              \* opcua_server.stop() has been awaited
    run_returned,                \* run_opcua_server has returned
    http_stop,                   \* the HTTP server was asked to shut down
    slc_pc,                      \* where a read_slc500_tags call followed step by step is
    slc_todo,                    \* the tags its loop has still to visit
    health_resp,                 \* the last response of GET /hmi/health
    ts_tags,                     \* TagStore._tags with the data type of each tag
    ts_values,                   \* TagStore._values with the type of each value
    held,                        \* the metadata handed to a caller of get_tag or list_tags
    ua_nodes,                    \* per tag id, the variable nodes added to the address space and not deleted
    patch_req                    \* a PATCH between its update_tag call and its set_value call

vars == <<GATEWAY_MOCK_PLC, GATEWAY_MOCK_FAIL_RECONNECT, READY_FILE,
          RECONNECT_BASE, RECONNECT_MAX, adverse, now, plc_health, driver,
          store_tags, store_values, opcua_vars, write_todo, pc, pending, shutdown_event,
          shutdown_scheduled, server_ready, plc_last_update,
          ready_file_writes, cycles, step, opc_tasks, mirror_todo,
          backoff_arg, backoff_ret, server_stopped, run_returned, http_stop,
          slc_pc, slc_todo, health_resp, ts_tags, ts_values, held, ua_nodes, patch_req>>

----------------------------------------------------------------------------
(* Bounds of the model *)

MaxTime == 3          \* the clock stops advancing here
EnvReconnectBase == 1 \* RECONNECT_BASE chosen by the environment
EnvReconnectMax == 2  \* RECONNECT_MAX chosen by the environment
MaxArg == 5           \* |n| of a direct compute_backoff_delay(n) call
MaxEnvBase == 3       \* RECONNECT_BASE range of the direct calls
MaxEnvCap == 9        \* RECONNECT_MAX range of the direct calls
MaxTasks == 2         \* coroutines waiting on the OPC UA loop at one time
MaxNodes == 2         \* nodes of one tag id in the address space at one time

(* Program constants *)

POLL_PERIOD == 1
RecentErrorsMaxLen == 10
EpochStart == 1       \* time.time() is positive

PLCs == {"compactlogix", "slc500"}
TagOrder == <<"T1", "T2">>   \* tag ids, in the order they are posted
TagIds == {TagOrder[i] : i \in 1..Len(TagOrder)}
Addresses == {"", "A1"}
NoValue == "<none>"
Unset == 0 - 1        \* a key absent from a plc_health entry

Min(a, b) == IF a <= b THEN a ELSE b
Max(a, b) == IF a >= b THEN a ELSE b

----------------------------------------------------------------------------
(* Reconnect / backoff state machine *)

\* the exponent taken from the count itself
compute_backoff_delay_early(fail_count) ==
    IF fail_count <= 0
    THEN 0
    ELSE Min(RECONNECT_BASE * (2 ^ Max(0, fail_count)), RECONNECT_MAX)

compute_backoff_delay(fail_count) ==
    IF fail_count <= 0
    THEN 0
    ELSE Min(RECONNECT_BASE * (2 ^ Max(0, fail_count - 1)), RECONNECT_MAX)

\* deque(maxlen=10).append
DequeAppend(q, e) ==
    IF Len(q) < RecentErrorsMaxLen THEN Append(q, e) ELSE Append(Tail(q), e)

InitHealth ==
    [ok |-> FALSE, last_success |-> 0, last_error |-> "None", fail_count |-> 0,
     recent_errors |-> <<>>, next_attempt |-> 0, last_backoff |-> Unset]

\* the health writes of a tick that found or made the driver connected
MarkConnected(h) == [h EXCEPT !.fail_count = 0, !.next_attempt = 0]

\* the same writes, with the delay computed before the increment
RecordReconnectFailure_stale(h, t, msg) ==
    LET fc == h.fail_count + 1
        delay == compute_backoff_delay(h.fail_count)
    IN [h EXCEPT !.recent_errors = DequeAppend(@, <<t, msg>>),
                 !.fail_count = fc,
                 !.next_attempt = t + delay,
                 !.last_backoff = delay]

\* the failure recorded with the delay of the fail_count before the increment
RecordReconnectFailure_prev(h, t, msg) ==
    LET fc == h.fail_count + 1
        delay == compute_backoff_delay(h.fail_count)
    IN [h EXCEPT !.recent_errors = DequeAppend(@, <<t, msg>>),
                 !.fail_count = fc,
                 !.next_attempt = t + delay,
                 !.last_backoff = delay]

\* the health writes of a tick's failure branches
RecordReconnectFailure(h, t, msg) ==
    LET fc == h.fail_count + 1
        delay == compute_backoff_delay(fc)
    IN [h EXCEPT !.recent_errors = DequeAppend(@, <<t, msg>>),
                 !.fail_count = fc,
                 !.next_attempt = t + delay,
                 !.last_backoff = delay]

NoResponse == [status |-> "none"]

NoDriver == [kind |-> "none", gen |-> 0, connected |-> FALSE]

\* The helper's driver calls (connected, open, the constructor) are each
\* caught by an inner handler, so its outer handler (lines 539-592) is not
\* reached from them and is left out.
\* kind "ctx": the mock context-manager drivers (no open()); kind "lib": an
\* instance of LogixDriver / SLCDriver.  gen tells one instance from the next.
try_reconnect_helper(h, drv, t, open_connects, ctor_raises, new_connects) ==
    IF t < h.next_attempt
    THEN [health |-> h, driver |-> drv, path |-> "gated"]
    ELSE
      LET forced == /\ GATEWAY_MOCK_FAIL_RECONNECT
                    /\ drv.kind = "none"
                    /\ ~GATEWAY_MOCK_PLC
          h1 == IF forced
                THEN RecordReconnectFailure(h, t, "forced reconnect failure (test)")
                ELSE h
      IN IF drv.connected
         THEN [health |-> MarkConnected(h1), driver |-> drv, path |-> "connected"]
         ELSE IF drv.kind = "lib" /\ open_connects
         THEN [health |-> MarkConnected(h1),
               driver |-> [drv EXCEPT !.connected = TRUE], path |-> "opened"]
         ELSE IF ctor_raises
         THEN [health |-> RecordReconnectFailure(h1, t, "recreate error"),
               driver |-> drv, path |-> "recreate_error"]
         ELSE [health |-> IF new_connects THEN MarkConnected(h1) ELSE h1,
               driver |-> [kind |-> "lib", gen |-> drv.gen + 1,
                           connected |-> new_connects],
               path |-> IF new_connects THEN "recreated" ELSE "recreated_down"]

----------------------------------------------------------------------------
(* Tag store (the parts the poll engine uses) *)

\* TagStore.list_tags: the metadata in insertion order
list_tags == store_tags

\* TagStore.set_value: stores under tag_id whether or not the tag is known
set_value(values, tag_id, value) == [values EXCEPT ![tag_id] = value]

\* TagStore.get_value with default scaling
get_value(tag_id) == store_values[tag_id]

MapSeq(s, Op(_)) == [i \in 1..Len(s) |-> Op(s[i])]
TagIdOf(t) == t.tag_id
AddressOf(t) == t.address
HasAddress(t) == t.address # ""

ReadAddrs == Addresses \ {""}

\* for tid, x in zip(tag_ids, addrs): if the read of x gave a result without
\* error, set_value(tid, <value read from x>)
ZipStore(values, tag_ids, addrs, outcome) ==
    LET n == Min(Len(tag_ids), Len(addrs))
        Hit(tid) == {i \in 1..n : tag_ids[i] = tid /\ outcome[addrs[i]] = "ok"}
    IN [tid \in DOMAIN values |->
          IF Hit(tid) # {}
          THEN addrs[CHOOSE i \in Hit(tid) : \A j \in Hit(tid) : j <= i]
          ELSE values[tid]]

Count(s, Test(_)) == Cardinality({i \in 1..Len(s) : Test(s[i])})

\* the health writes after the read loop
MarkReadSuccess(h, t) ==
    [h EXCEPT !.ok = TRUE, !.last_success = t, !.last_error = "None",
              !.fail_count = 0, !.next_attempt = 0]

MarkNotConnected(h) == [h EXCEPT !.ok = FALSE, !.last_error = "not connected"]

ReadReturn(h, values, path, calls, raised) ==
    [health |-> h, values |-> values,
     info |-> [path |-> path, calls |-> calls, raised |-> raised]]

\* Every driver call of the read functions sits in an inner try/except, so an
\* exception of the driver never reaches their outer handlers (lines 694-734
\* and 805-845): those handlers are no outcome of a read and are left out.
\* batch_raises: plc.read(*addresses) raises; bres: the error field of each
\* batch result; sres: the outcome of plc.read(addr) for each address
read_compactlogix_tags(plc, stop_set, h, values, t, batch_raises, bres, sres) ==
    IF stop_set THEN ReadReturn(h, values, "shutdown", 0, 0)
    ELSE IF ~plc.connected
    THEN ReadReturn(MarkNotConnected(h), values, "not_connected", 0, 0)
    ELSE
      LET compact_tags == SelectSeq(list_tags,
                             LAMBDA x : x.plc_id = "compactlogix" /\ x.enabled)
          addresses == MapSeq(SelectSeq(compact_tags, HasAddress), AddressOf)
          tag_ids == MapSeq(compact_tags, TagIdOf)
          IsRaise(a) == sres[a] = "raise"
      IN IF Len(compact_tags) = 0 THEN ReadReturn(h, values, "no_tags", 0, 0)
         ELSE IF Len(addresses) = 0
         THEN ReadReturn(h, values, "no_addresses", 0, 0)
         ELSE IF ~batch_raises
         THEN ReadReturn(MarkReadSuccess(h, t),
                         ZipStore(values, tag_ids, addresses, bres), "read", 1, 0)
         ELSE ReadReturn(MarkReadSuccess(h, t),
                         ZipStore(values, tag_ids, addresses, sres), "read",
                         1 + Len(addresses), 1 + Count(addresses, IsRaise))

read_slc500_tags(plc, stop_set, h, values, t, sres) ==
    IF stop_set THEN ReadReturn(h, values, "shutdown", 0, 0)
    ELSE IF ~plc.connected
    THEN ReadReturn(MarkNotConnected(h), values, "not_connected", 0, 0)
    ELSE
      LET slc_tags == SelectSeq(list_tags,
                         LAMBDA x : x.plc_id = "slc500" /\ x.enabled)
          with_addr == SelectSeq(slc_tags, HasAddress)
          IsRaise(a) == sres[a] = "raise"
      IN IF Len(slc_tags) = 0 THEN ReadReturn(h, values, "no_tags", 0, 0)
         ELSE ReadReturn(MarkReadSuccess(h, t),
                         ZipStore(values, MapSeq(with_addr, TagIdOf),
                                  MapSeq(with_addr, AddressOf), sres),
                         "read", Len(with_addr),
                         Count(MapSeq(with_addr, AddressOf), IsRaise))

----------------------------------------------------------------------------
(* Start of the process: the tags posted before the OPC UA runtime starts *)

\* The tags of a run are those of one controller; only the last one posted
\* may be disabled.
TagConfigs ==
    UNION {{s \in [1..n -> [tag_id : TagIds, plc_id : {p}, address : Addresses,
                            enabled : BOOLEAN]] :
              \A i \in 1..n : /\ s[i].tag_id = TagOrder[i]
                              /\ i < n => s[i].enabled}
           : n \in 0..Len(TagOrder), p \in PLCs}

\* The environments of a run: each flag set and unset, with and without the
\* mock drivers.
EnvChoices ==
    {[mock |-> TRUE, fail |-> TRUE, ready_file |-> TRUE],
     [mock |-> TRUE, fail |-> FALSE, ready_file |-> FALSE],
     [mock |-> FALSE, fail |-> FALSE, ready_file |-> TRUE],
     [mock |-> FALSE, fail |-> TRUE, ready_file |-> FALSE]}

\* op: the function that ran; plc: its controller; path: the return it took;
\* calls, raised: the driver.read calls it made and how many of them raised
Step(op, plc, path, calls, raised) ==
    [op |-> op, plc |-> plc, path |-> path, calls |-> calls, raised |-> raised]

VNone == [k |-> "none"]
NoTag == [present |-> FALSE]
NoHeld == [tag_id |-> "", live |-> FALSE, data_type |-> <<>>]
NoPatch == [tag_id |-> ""]

\* the store after TagStore(): no tag, no value, and nothing handed out yet
TypedStoreEmpty ==
    /\ ts_tags = [tid \in TagIds |-> NoTag]
    /\ ts_values = [tid \in TagIds |-> VNone]
    /\ held = NoHeld

StoredIds == {store_tags[i].tag_id : i \in 1..Len(store_tags)}

Init ==
    /\ \E e \in EnvChoices :
         /\ GATEWAY_MOCK_PLC = e.mock
         /\ GATEWAY_MOCK_FAIL_RECONNECT = e.fail
         /\ READY_FILE = e.ready_file
         /\ adverse \in IF e.mock THEN {"none"} ELSE PLCs
    /\ RECONNECT_BASE = EnvReconnectBase
    /\ RECONNECT_MAX = EnvReconnectMax
    /\ now = EpochStart
    /\ plc_health = [p \in PLCs |-> InitHealth]
    /\ driver = [p \in PLCs |-> NoDriver]
    /\ store_tags \in TagConfigs
    /\ store_values = [tid \in TagIds |->
                         IF \E i \in 1..Len(store_tags) : store_tags[i].tag_id = tid
                         THEN "init" ELSE NoValue]
    /\ opcua_vars = <<>>
    /\ write_todo = <<>>
    /\ pc = "start"
    /\ pending = {}
    /\ shutdown_event = FALSE
    /\ shutdown_scheduled = FALSE
    /\ server_ready = FALSE
    /\ plc_last_update = 0
    /\ ready_file_writes = 0
    /\ cycles = 0
    /\ step = Step("import", "", "", 0, 0)
    /\ opc_tasks = <<>>
    /\ mirror_todo = <<>>
    /\ backoff_arg = 0
    /\ backoff_ret = 0
    /\ server_stopped = FALSE
    /\ run_returned = FALSE
    /\ http_stop = FALSE
    /\ slc_pc = "idle"
    /\ slc_todo = <<>>
    /\ health_resp = NoResponse
    /\ TypedStoreEmpty
    /\ ua_nodes = [tid \in TagIds |-> 0]
    /\ patch_req = NoPatch

envVars == <<GATEWAY_MOCK_PLC, GATEWAY_MOCK_FAIL_RECONNECT, READY_FILE,
             RECONNECT_BASE, RECONNECT_MAX, adverse>>
callVars == <<backoff_arg, backoff_ret, opc_tasks, mirror_todo>>
stopVars == <<server_stopped, run_returned, http_stop>>
readVars == <<slc_pc, slc_todo, health_resp>>
typedVars == <<ts_tags, ts_values, held>>

----------------------------------------------------------------------------
(* run_opcua_server *)

\* opcua_loop is published once the startup nodes exist
opcua_loop_set == pc \notin {"start", "mirror"}

\* server.init ... "for tmeta in tag_store.list_tags()": the list is taken once
StartServer ==
    /\ pc = "start"
    /\ mirror_todo' = MapSeq(list_tags, TagIdOf)
    /\ pc' = "mirror"
    /\ step' = Step("run_opcua_server", "", "", 0, 0)
    /\ UNCHANGED <<envVars, patch_req, typedVars, ua_nodes, readVars, stopVars, backoff_arg, backoff_ret, opc_tasks, now, plc_health,
                   driver, store_tags, store_values, opcua_vars, write_todo,
                   pending, shutdown_event, shutdown_scheduled, server_ready,
                   plc_last_update, ready_file_writes, cycles>>

\* the nodes of the tags of that list, each with the value the store holds
\* now; then opcua_loop is published
MirrorNodes ==
    /\ pc = "mirror"
    /\ opcua_vars' = [i \in 1..Len(mirror_todo) |->
                        [tag_id |-> mirror_todo[i],
                         value |-> get_value(mirror_todo[i])]]
    /\ ua_nodes' = [tid \in TagIds |->
                      IF \E i \in 1..Len(mirror_todo) : mirror_todo[i] = tid THEN 1 ELSE 0]
    /\ mirror_todo' = <<>>
    /\ pc' = "drivers"
    /\ step' = Step("run_opcua_server", "", "", 0, 0)
    /\ UNCHANGED <<envVars, patch_req, typedVars, readVars, stopVars, backoff_arg, backoff_ret, opc_tasks, now, plc_health,
                   driver, store_tags, store_values, write_todo,
                   pending, shutdown_event, shutdown_scheduled, server_ready,
                   plc_last_update, ready_file_writes, cycles>>

\* MOCK_PLC: the context-manager drivers, and the pre-populated failure
OpenMockDrivers ==
    /\ pc = "drivers"
    /\ GATEWAY_MOCK_PLC
    /\ driver' = [p \in PLCs |-> [kind |-> "ctx", gen |-> 1, connected |-> TRUE]]
    /\ plc_health' =
         [p \in PLCs |->
            LET h == [plc_health[p] EXCEPT !.ok = TRUE]
            IN IF GATEWAY_MOCK_FAIL_RECONNECT /\ p = "compactlogix"
               THEN RecordReconnectFailure(h, now, "forced reconnect failure (test)")
               ELSE h]
    /\ pc' = "tick_compactlogix"
    /\ step' = Step("run_opcua_server", "", "", 0, 0)
    /\ UNCHANGED <<envVars, patch_req, typedVars, ua_nodes, readVars, stopVars, callVars, now, store_tags, store_values, opcua_vars,
                   write_todo, pending, shutdown_event, shutdown_scheduled,
                   server_ready, plc_last_update, ready_file_writes, cycles>>

\* the library drivers: constructed, opened (open may fail silently)
OpenDrivers ==
    /\ pc = "drivers"
    /\ ~GATEWAY_MOCK_PLC
    /\ \E up \in {f \in [PLCs -> BOOLEAN] : \A p \in PLCs : p # adverse => f[p]} :
         /\ driver' = [p \in PLCs |-> [kind |-> "lib", gen |-> 1, connected |-> up[p]]]
         /\ plc_health' = [p \in PLCs |-> [plc_health[p] EXCEPT !.ok = up[p]]]
    /\ pc' = "tick_compactlogix"
    /\ step' = Step("run_opcua_server", "", "", 0, 0)
    /\ UNCHANGED <<envVars, patch_req, typedVars, ua_nodes, readVars, stopVars, callVars, now, store_tags, store_values, opcua_vars,
                   write_todo, pending, shutdown_event, shutdown_scheduled,
                   server_ready, plc_last_update, ready_file_writes, cycles>>

----------------------------------------------------------------------------
(* plc_data_poller *)

TickPc(p) == IF p = "compactlogix" THEN "tick_compactlogix" ELSE "tick_slc500"
AfterTickPc(p) == IF p = "compactlogix" THEN "tick_slc500" ELSE "gate"

\* what the environment decides in a tick: whether driver.open() connects,
\* whether driver_cls(ip) raises, whether the new driver's open() connects
TickChoices(p, h, drv, t) ==
    IF t < h.next_attempt \/ drv.connected
    THEN {<<FALSE, FALSE, FALSE>>}
    ELSE IF p # adverse THEN {<<TRUE, FALSE, FALSE>>}
    ELSE {<<TRUE, FALSE, FALSE>>, <<FALSE, TRUE, FALSE>>,
          <<FALSE, FALSE, TRUE>>, <<FALSE, FALSE, FALSE>>}

\* step 1: the reconnect tick of one PLC
PollReconnect(p) ==
    /\ pc = TickPc(p)
    /\ \E c \in TickChoices(p, plc_health[p], driver[p], now) :
         LET r == try_reconnect_helper(plc_health[p], driver[p], now,
                                       c[1], c[2], c[3])
         IN /\ plc_health' = [plc_health EXCEPT ![p] = r.health]
            /\ driver' = [driver EXCEPT ![p] = r.driver]
            /\ step' = Step("try_reconnect_helper", p, r.path, 0, 0)
    /\ pc' = AfterTickPc(p)
    /\ UNCHANGED <<envVars, patch_req, typedVars, ua_nodes, readVars, stopVars, callVars, now, store_tags, store_values, opcua_vars,
                   write_todo, pending, shutdown_event, shutdown_scheduled,
                   server_ready, plc_last_update, ready_file_writes, cycles>>

\* "if shutdown_event.is_set(): break", else the two worker threads start
PollStartReads ==
    /\ pc = "gate"
    /\ IF shutdown_event
       THEN pc' = "done" /\ pending' = pending
       ELSE pc' = "reads" /\ pending' = PLCs
    /\ step' = Step("plc_data_poller", "", "", 0, 0)
    /\ UNCHANGED <<envVars, patch_req, typedVars, ua_nodes, readVars, stopVars, callVars, now, plc_health, driver, store_tags,
                   store_values, opcua_vars, write_todo, shutdown_event,
                   shutdown_scheduled, server_ready, plc_last_update,
                   ready_file_writes, cycles>>

\* what the environment decides in a read: whether the batch read raises, the
\* error field of a batch result, the outcome of a single read, and whether a
\* read that raised leaves the driver disconnected.  Only the adverse
\* controller's driver raises or reports an error; the mock drivers never do.
ReadChoices(p) ==
    IF p # adverse \/ shutdown_event \/ ~driver[p].connected
    THEN {[batch_raises |-> FALSE, bres |-> "ok", sres |-> "ok", drops |-> FALSE]}
    ELSE [batch_raises : {FALSE}, bres : {"ok", "err"}, sres : {"ok"}, drops : {FALSE}]
         \cup [batch_raises : {TRUE}, bres : {"ok"}, sres : {"ok", "err"}, drops : {FALSE}]
         \cup [batch_raises : {TRUE}, bres : {"ok"}, sres : {"raise"}, drops : BOOLEAN]

\* the read function of one PLC, on its worker thread
ReadWorker(p) ==
    /\ p \in pending
    /\ \E c \in ReadChoices(p) :
         LET bres == [a \in ReadAddrs |-> c.bres]
             sres == [a \in ReadAddrs |-> c.sres]
             r == IF p = "compactlogix"
                  THEN read_compactlogix_tags(driver[p], shutdown_event,
                           plc_health[p], store_values, now,
                           c.batch_raises, bres, sres)
                  ELSE read_slc500_tags(driver[p], shutdown_event,
                           plc_health[p], store_values, now, sres)
         IN /\ plc_health' = [plc_health EXCEPT ![p] = r.health]
            /\ store_values' = r.values
            /\ step' = Step("read_tags", p, r.info.path, r.info.calls, r.info.raised)
            /\ driver' = IF c.drops /\ r.info.raised > 0
                         THEN [driver EXCEPT ![p].connected = FALSE]
                         ELSE driver
    /\ pending' = pending \ {p}
    /\ UNCHANGED <<envVars, patch_req, typedVars, ua_nodes, readVars, stopVars, callVars, now, store_tags, opcua_vars,
                   write_todo, pc, shutdown_event, shutdown_scheduled,
                   server_ready, plc_last_update, ready_file_writes, cycles>>

\* the poller going on to step 3 without waiting for the worker threads
PollReadsDone_early ==
    /\ pc = "reads"
    /\ write_todo' = MapSeq(opcua_vars, TagIdOf)
    /\ pc' = "opcua"
    /\ step' = Step("plc_data_poller", "", "", 0, 0)
    /\ UNCHANGED <<envVars, patch_req, typedVars, ua_nodes, readVars, stopVars, callVars, now, plc_health, driver, store_tags,
                   store_values, opcua_vars, pending, shutdown_event,
                   shutdown_scheduled, server_ready, plc_last_update,
                   ready_file_writes, cycles>>

\* asyncio.gather returned: "for tid, node in list(opcua_vars.items())"
PollReadsDone ==
    /\ pc = "reads"
    /\ pending = {}
    /\ write_todo' = MapSeq(opcua_vars, TagIdOf)
    /\ pc' = "opcua"
    /\ step' = Step("plc_data_poller", "", "", 0, 0)
    /\ UNCHANGED <<envVars, patch_req, typedVars, ua_nodes, readVars, stopVars, callVars, now, plc_health, driver, store_tags,
                   store_values, opcua_vars, pending, shutdown_event,
                   shutdown_scheduled, server_ready, plc_last_update,
                   ready_file_writes, cycles>>

\* step 3: await node.write_value(_normalize_for_opc(tag_store.get_value(tid)))
PollWriteNode ==
    /\ pc = "opcua"
    /\ write_todo # <<>>
    /\ opcua_vars' = [i \in 1..Len(opcua_vars) |->
                        IF opcua_vars[i].tag_id = Head(write_todo)
                        THEN [opcua_vars[i] EXCEPT !.value = get_value(Head(write_todo))]
                        ELSE opcua_vars[i]]
    /\ write_todo' = Tail(write_todo)
    /\ step' = Step("plc_data_poller", "", "", 0, 0)
    /\ UNCHANGED <<envVars, patch_req, typedVars, ua_nodes, readVars, stopVars, callVars, now, plc_health, driver, store_tags,
                   store_values, pc, pending, shutdown_event,
                   shutdown_scheduled, server_ready, plc_last_update,
                   ready_file_writes, cycles>>

\* step 4 taken while node writes of the cycle are still to do
PollStamp_early ==
    /\ pc = "opcua"
    /\ plc_last_update' = now
    /\ cycles' = cycles + 1
    /\ IF ~server_ready /\ plc_last_update' # 0
       THEN /\ server_ready' = TRUE
            /\ ready_file_writes' = IF READY_FILE THEN ready_file_writes + 1
                                    ELSE ready_file_writes
       ELSE UNCHANGED <<server_ready, ready_file_writes>>
    /\ pc' = "sleep"
    /\ step' = Step("plc_data_poller", "", "", 0, 0)
    /\ UNCHANGED <<envVars, patch_req, typedVars, ua_nodes, readVars, stopVars, callVars, now, plc_health, driver, store_tags,
                   store_values, opcua_vars, write_todo, pending, shutdown_event,
                   shutdown_scheduled>>

\* step 4 with the readiness file written on every cycle
PollStamp_rewrites ==
    /\ pc = "opcua"
    /\ write_todo = <<>>
    /\ plc_last_update' = now
    /\ cycles' = cycles + 1
    /\ server_ready' = TRUE
    /\ ready_file_writes' = IF READY_FILE THEN ready_file_writes + 1
                            ELSE ready_file_writes
    /\ pc' = "sleep"
    /\ step' = Step("plc_data_poller", "", "", 0, 0)
    /\ UNCHANGED <<envVars, patch_req, typedVars, ua_nodes, readVars, stopVars, callVars, now, plc_health, driver, store_tags,
                   store_values, opcua_vars, write_todo, pending, shutdown_event,
                   shutdown_scheduled>>

\* step 4 with readiness following the health of the cycle
PollStamp_follows ==
    /\ pc = "opcua"
    /\ write_todo = <<>>
    /\ plc_last_update' = now
    /\ cycles' = cycles + 1
    /\ server_ready' = \A p \in PLCs : plc_health[p].ok
    /\ ready_file_writes' = IF READY_FILE /\ ~server_ready /\ server_ready'
                            THEN ready_file_writes + 1 ELSE ready_file_writes
    /\ pc' = "sleep"
    /\ step' = Step("plc_data_poller", "", "", 0, 0)
    /\ UNCHANGED <<envVars, patch_req, typedVars, ua_nodes, readVars, stopVars, callVars, now, plc_health, driver, store_tags,
                   store_values, opcua_vars, write_todo, pending, shutdown_event,
                   shutdown_scheduled>>

\* step 4: the timestamp, and readiness on the first cycle
PollStamp ==
    /\ pc = "opcua"
    /\ write_todo = <<>>
    /\ plc_last_update' = now
    /\ cycles' = cycles + 1
    /\ IF ~server_ready /\ plc_last_update' # 0
       THEN /\ server_ready' = TRUE
            /\ ready_file_writes' = IF READY_FILE THEN ready_file_writes + 1
                                    ELSE ready_file_writes
       ELSE UNCHANGED <<server_ready, ready_file_writes>>
    /\ pc' = "sleep"
    /\ step' = Step("plc_data_poller", "", "", 0, 0)
    /\ UNCHANGED <<envVars, patch_req, typedVars, ua_nodes, readVars, stopVars, callVars, now, plc_health, driver, store_tags,
                   store_values, opcua_vars, write_todo, pending, shutdown_event,
                   shutdown_scheduled>>

\* step 5: await asyncio.sleep(poll_period)
PollSleep ==
    /\ pc = "sleep"
    /\ now < MaxTime
    /\ now' = now + POLL_PERIOD
    /\ pc' = "tick_compactlogix"
    /\ step' = Step("plc_data_poller", "", "", 0, 0)
    /\ UNCHANGED <<envVars, patch_req, typedVars, ua_nodes, readVars, stopVars, callVars, plc_health, driver, store_tags,
                   store_values, opcua_vars, write_todo, pending, shutdown_event,
                   shutdown_scheduled, server_ready, plc_last_update,
                   ready_file_writes, cycles>>

----------------------------------------------------------------------------
(* REST handlers on the HTTP threads *)

\* POST /hmi/stop: the signal, _shutdown_gateway submitted to the loop if
\* there is one, and the HTTP server asked to shut down from a background
\* thread if the request carries werkzeug.server.shutdown.  The answer is
\* {"status": "shutting_down"} on every path.
stop_hmi ==
    /\ ~shutdown_event
    /\ shutdown_event' = TRUE
    /\ shutdown_scheduled' = opcua_loop_set
    /\ \E func \in BOOLEAN : http_stop' = func
    /\ step' = Step("stop_hmi", "", "shutting_down", 0, 0)
    /\ UNCHANGED <<envVars, patch_req, typedVars, ua_nodes, readVars, callVars, now, plc_health, driver, store_tags,
                   store_values, opcua_vars, write_todo, pc, pending,
                   server_ready, plc_last_update, ready_file_writes, cycles,
                   server_stopped, run_returned>>

\* _shutdown_gateway on the loop, stage 2: the poller task is cancelled where
\* it awaits
ShutdownGateway ==
    /\ shutdown_scheduled
    /\ pc \in {"reads", "opcua", "sleep"}
    /\ pc = "opcua" => write_todo # <<>>
    /\ pc' = "done"
    /\ step' = Step("_shutdown_gateway", "", "cancel", 0, 0)
    /\ UNCHANGED <<envVars, patch_req, typedVars, ua_nodes, readVars, stopVars, callVars, now, plc_health, driver, store_tags,
                   store_values, opcua_vars, write_todo, pending, shutdown_event,
                   shutdown_scheduled, server_ready, plc_last_update,
                   ready_file_writes, cycles>>

\* _shutdown_gateway, stage 3: the wait for the tasks is over and
\* opcua_server.stop() is awaited
StopServer ==
    /\ shutdown_scheduled
    /\ pc = "done"
    /\ ~server_stopped
    /\ server_stopped' = TRUE
    /\ step' = Step("_shutdown_gateway", "", "stop", 0, 0)
    /\ UNCHANGED <<envVars, patch_req, typedVars, ua_nodes, readVars, callVars, now, plc_health, driver, store_tags,
                   store_values, opcua_vars, write_todo, pc, pending, shutdown_event,
                   shutdown_scheduled, server_ready, plc_last_update,
                   ready_file_writes, cycles, run_returned, http_stop>>

\* close() of the two drivers run_opcua_server holds: the ones it made itself
CloseDrivers(drv) ==
    [p \in PLCs |-> IF drv[p].gen = 1 THEN [drv[p] EXCEPT !.connected = FALSE]
                    ELSE drv[p]]

\* run_opcua_server after its gather: the poller task has ended, the drivers
\* are closed (the with block's exit, or the finally clause), it returns
RunReturn ==
    /\ pc = "done"
    /\ ~run_returned
    /\ run_returned' = TRUE
    /\ driver' = CloseDrivers(driver)
    /\ step' = Step("run_opcua_server", "", "return", 0, 0)
    /\ UNCHANGED <<envVars, patch_req, typedVars, ua_nodes, readVars, callVars, now, plc_health, store_tags,
                   store_values, opcua_vars, write_todo, pc, pending, shutdown_event,
                   shutdown_scheduled, server_ready, plc_last_update,
                   ready_file_writes, cycles, server_stopped, http_stop>>

\* GET /hmi/ready: the status of the response; the handler writes nothing
get_hmi_ready == IF server_ready THEN 200 ELSE 503

\* get_hmi_health: "age < 5"
HealthMaxAge == 5

\* the clocks and fail counts a health request is tried with
MaxClock == 7
MaxFails == 3

\* GET /hmi/health: the last_backoff reported for a health entry
HealthLastBackoff(h) ==
    IF h.last_backoff = Unset THEN compute_backoff_delay(h.fail_count)
    ELSE h.last_backoff

----------------------------------------------------------------------------

Next ==
    \/ StartServer
    \/ MirrorNodes
    \/ OpenMockDrivers
    \/ OpenDrivers
    \/ \E p \in PLCs : PollReconnect(p)
    \/ PollStartReads
    \/ \E p \in PLCs : ReadWorker(p)
    \/ PollReadsDone
    \/ PollWriteNode
    \/ PollStamp
    \/ PollSleep
    \/ stop_hmi
    \/ ShutdownGateway
    \/ StopServer
    \/ RunReturn

Spec == Init /\ [][Next]_vars

\* The steps of the asyncio loop and of the worker threads: every step but
\* the arrival of a request.
LoopStep ==
    \/ StartServer
    \/ MirrorNodes
    \/ OpenMockDrivers
    \/ OpenDrivers
    \/ \E p \in PLCs : PollReconnect(p)
    \/ PollStartReads
    \/ \E p \in PLCs : ReadWorker(p)
    \/ PollReadsDone
    \/ PollWriteNode
    \/ PollStamp
    \/ PollSleep
    \/ ShutdownGateway
    \/ StopServer
    \/ RunReturn

\* the runs with a store that holds one tag
InitStop == Init /\ Len(store_tags) = 1

\* The loop runs whatever is ready and the worker threads run to their end:
\* a step of theirs that stays possible is taken.
SpecStop == InitStop /\ [][Next]_vars /\ WF_vars(LoopStep)

----------------------------------------------------------------------------
(* Direct calls of compute_backoff_delay, under any configuration *)

InitBackoff ==
    /\ GATEWAY_MOCK_PLC = TRUE
    /\ GATEWAY_MOCK_FAIL_RECONNECT = FALSE
    /\ READY_FILE = FALSE
    /\ adverse = "none"
    /\ RECONNECT_BASE \in 0..MaxEnvBase
    /\ RECONNECT_MAX \in 0..MaxEnvCap
    /\ now = EpochStart
    /\ plc_health = [p \in PLCs |-> InitHealth]
    /\ driver = [p \in PLCs |-> NoDriver]
    /\ store_tags = <<>>
    /\ store_values = [tid \in TagIds |-> NoValue]
    /\ opcua_vars = <<>>
    /\ write_todo = <<>>
    /\ pc = "start"
    /\ pending = {}
    /\ shutdown_event = FALSE
    /\ shutdown_scheduled = FALSE
    /\ server_ready = FALSE
    /\ plc_last_update = 0
    /\ ready_file_writes = 0
    /\ cycles = 0
    /\ step = Step("import", "", "", 0, 0)
    /\ opc_tasks = <<>>
    /\ mirror_todo = <<>>
    /\ backoff_arg = 0
    /\ backoff_ret = 0
    /\ server_stopped = FALSE
    /\ run_returned = FALSE
    /\ http_stop = FALSE
    /\ slc_pc = "idle"
    /\ slc_todo = <<>>
    /\ health_resp = NoResponse
    /\ TypedStoreEmpty
    /\ ua_nodes = [tid \in TagIds |-> 0]
    /\ patch_req = NoPatch

CallBackoff ==
    /\ \E n \in (0 - MaxArg)..MaxArg :
         /\ backoff_arg' = n
         /\ backoff_ret' = compute_backoff_delay(n)
    /\ step' = Step("compute_backoff_delay", "", "", 0, 0)
    /\ UNCHANGED <<envVars, patch_req, typedVars, ua_nodes, readVars, stopVars, now, plc_health, driver, store_tags, store_values,
                   opcua_vars, write_todo, pc, pending, shutdown_event,
                   shutdown_scheduled, server_ready, plc_last_update,
                   ready_file_writes, cycles, opc_tasks, mirror_todo>>

NextBackoff == CallBackoff

SpecBackoff == InitBackoff /\ [][NextBackoff]_vars

----------------------------------------------------------------------------
(* The REST tag handlers and the OPC UA bridge *)

HasTag(tags, tid) == \E i \in 1..Len(tags) : tags[i].tag_id = tid

\* TagStore.add_tag: a dict assignment, a known key keeps its place
TagStore_add_tag(tags, meta) ==
    IF HasTag(tags, meta.tag_id)
    THEN [i \in 1..Len(tags) |-> IF tags[i].tag_id = meta.tag_id THEN meta ELSE tags[i]]
    ELSE Append(tags, meta)

TagStore_remove_tag(tags, tid) == SelectSeq(tags, LAMBDA x : x.tag_id # tid)

TagStore_clear_tags == <<>>

\* the tag a request body describes
PayloadTag(tid) ==
    [tag_id |-> tid, plc_id |-> "compactlogix", address |-> "A1", enabled |-> TRUE]

\* What an element of a request body is like.  "ok": a valid tag without
\* initial_value; "bad_scale": its scale_mul is not a number, so building the
\* Tag raises; "bad_dtype": its data_type is not a string and it has no
\* initial_value.
BodyKinds == {"ok", "bad_scale", "bad_dtype"}

\* the bodies of POST /tags and PUT /tags/import: lists of distinct tags.
\* Both handlers return at the first element they reject, so a longer body
\* has valid elements before its last one.
Bodies ==
    {<<>>}
    \cup {<<[tag_id |-> a, kind |-> k]>> : a \in TagIds, k \in BodyKinds}
    \cup {<<[tag_id |-> q[1], kind |-> "ok"], [tag_id |-> q[2], kind |-> k]>> :
            q \in {x \in TagIds \X TagIds : x[1] # x[2]}, k \in BodyKinds}

\* _schedule_on_opc_loop: nothing is submitted while opcua_loop is None
schedule_on_opc_loop(tasks, coro, tid) ==
    IF opcua_loop_set
    THEN Append(tasks, [coro |-> coro, tag_id |-> tid, at |-> "new", val |-> NoValue])
    ELSE tasks

HandlerReturn(tags, values, tasks, status) ==
    [tags |-> tags, values |-> values, tasks |-> tasks, status |-> status]

\* the loop of add_tag over the body.  Tag(...) raises before the store is
\* touched; TagStore.add_tag assigns _tags[tag_id] and then raises on
\* data_type.lower() before it assigns a value; either way the answer is 400.
RECURSIVE PostLoop(_, _, _, _)
PostLoop(tags, values, tasks, body) ==
    IF body = <<>> THEN HandlerReturn(tags, values, tasks, "201")
    ELSE LET el == Head(body)
             meta == PayloadTag(el.tag_id)
         IN IF el.kind = "bad_scale"
            THEN HandlerReturn(tags, values, tasks, "400")
            ELSE IF el.kind = "bad_dtype"
            THEN HandlerReturn(TagStore_add_tag(tags, meta), values, tasks, "400")
            ELSE PostLoop(TagStore_add_tag(tags, meta),
                          [values EXCEPT ![el.tag_id] = "init"],
                          schedule_on_opc_loop(tasks, "create", el.tag_id),
                          Tail(body))

\* the loop of import_tags over the body.  _validate_tag_payload rejects a
\* data_type that is not a string with 400; a scale_mul that is not a number
\* passes it and raises in Tag(...), which the handler does not catch (500).
RECURSIVE ImportLoop(_, _, _, _)
ImportLoop(tags, values, tasks, body) ==
    IF body = <<>> THEN HandlerReturn(tags, values, tasks, "200")
    ELSE LET el == Head(body)
             meta == PayloadTag(el.tag_id)
         IN IF el.kind = "bad_dtype"
            THEN HandlerReturn(tags, values, tasks, "400")
            ELSE IF el.kind = "bad_scale"
            THEN HandlerReturn(tags, values, tasks, "500")
            ELSE ImportLoop(TagStore_add_tag(tags, meta),
                            [values EXCEPT ![el.tag_id] = "init"],
                            schedule_on_opc_loop(tasks, "create", el.tag_id),
                            Tail(body))

patchIdle == <<envVars, typedVars, readVars, stopVars, backoff_arg, backoff_ret, mirror_todo, now, plc_health, driver,
               write_todo, pc, pending, shutdown_event, shutdown_scheduled,
               server_ready, plc_last_update, ready_file_writes, cycles>>

bridgeIdle == <<patch_req, patchIdle>>

\* POST /tags with one tag or a batch
add_tag(body) ==
    /\ Len(opc_tasks) + Len(body) <= MaxTasks
    /\ LET r == PostLoop(store_tags, store_values, opc_tasks, body)
       IN /\ store_tags' = r.tags
          /\ store_values' = r.values
          /\ opc_tasks' = r.tasks
          /\ step' = Step("add_tag", "", r.status, 0, 0)
    /\ UNCHANGED <<bridgeIdle, ua_nodes, opcua_vars>>

\* GET /tags/<tag_id>: 404 for a tag the store does not hold; nothing is written
get_tag(tid) ==
    /\ step' = Step("get_tag", "", IF HasTag(store_tags, tid) THEN "200" ELSE "404", 0, 0)
    /\ UNCHANGED <<bridgeIdle, ua_nodes, store_tags, store_values, opc_tasks, opcua_vars>>

\* DELETE that removes and submits the node deletion before looking the tag up
delete_tag_blind(tid) ==
    /\ Len(opc_tasks) < MaxTasks
    /\ store_tags' = TagStore_remove_tag(store_tags, tid)
    /\ store_values' = [store_values EXCEPT ![tid] = NoValue]
    /\ opc_tasks' = schedule_on_opc_loop(opc_tasks, "delete", tid)
    /\ step' = Step("delete_tag", "", IF HasTag(store_tags, tid) THEN "200" ELSE "404", 0, 0)
    /\ UNCHANGED <<bridgeIdle, ua_nodes, opcua_vars>>

\* DELETE that drops the node from opcua_vars on the HTTP thread
delete_tag_direct(tid) ==
    /\ Len(opc_tasks) < MaxTasks
    /\ IF HasTag(store_tags, tid)
       THEN /\ store_tags' = TagStore_remove_tag(store_tags, tid)
            /\ store_values' = [store_values EXCEPT ![tid] = NoValue]
            /\ opcua_vars' = SelectSeq(opcua_vars, LAMBDA x : x.tag_id # tid)
            /\ step' = Step("delete_tag", "", "200", 0, 0)
       ELSE /\ step' = Step("delete_tag", "", "404", 0, 0)
            /\ UNCHANGED <<store_tags, store_values, opcua_vars>>
    /\ UNCHANGED <<bridgeIdle, ua_nodes, opc_tasks>>

\* DELETE /tags/<tag_id>
delete_tag(tid) ==
    /\ Len(opc_tasks) < MaxTasks
    /\ IF HasTag(store_tags, tid)
       THEN /\ store_tags' = TagStore_remove_tag(store_tags, tid)
            /\ store_values' = [store_values EXCEPT ![tid] = NoValue]
            /\ opc_tasks' = schedule_on_opc_loop(opc_tasks, "delete", tid)
            /\ step' = Step("delete_tag", "", "200", 0, 0)
       ELSE /\ step' = Step("delete_tag", "", "404", 0, 0)
            /\ UNCHANGED <<store_tags, store_values, opc_tasks>>
    /\ UNCHANGED <<bridgeIdle, ua_nodes, opcua_vars>>

\* PUT /tags/import that ignores replace_all
import_tags_keep(replace_all, body) ==
    /\ Len(opc_tasks) + Len(body) <= MaxTasks
    /\ LET r == ImportLoop(store_tags, store_values, opc_tasks, body)
       IN /\ store_tags' = r.tags
          /\ store_values' = r.values
          /\ opc_tasks' = r.tasks
          /\ step' = Step("import_tags", "", r.status, 0, 0)
    /\ UNCHANGED <<bridgeIdle, ua_nodes, opcua_vars>>

\* PUT /tags/import
import_tags(replace_all, body) ==
    /\ Len(opc_tasks) + Len(body) <= MaxTasks
    /\ LET kept == IF replace_all THEN TagStore_clear_tags ELSE store_tags
           vals == IF replace_all THEN [tid \in TagIds |-> NoValue] ELSE store_values
           r == ImportLoop(kept, vals, opc_tasks, body)
       IN /\ store_tags' = r.tags
          /\ store_values' = r.values
          /\ opc_tasks' = r.tasks
          /\ step' = Step("import_tags", "", r.status, 0, 0)
    /\ UNCHANGED <<bridgeIdle, ua_nodes, opcua_vars>>

\* the bodies of PATCH /tags/<tag_id>: empty, only fields that are not
\* allowed, a new address, a new value
PatchBodies ==
    {[kind |-> "empty", address |-> ""], [kind |-> "not_allowed", address |-> ""],
     [kind |-> "value", address |-> ""]}
    \cup {[kind |-> "address", address |-> "A1"]}

\* TagStore.update_tag
TagStore_update_tag(tags, tid, address) ==
    [i \in 1..Len(tags) |->
       IF tags[i].tag_id = tid THEN [tags[i] EXCEPT !.address = address] ELSE tags[i]]

\* PATCH /tags/<tag_id>
patch_tag(tid, body) ==
    /\ Len(opc_tasks) < MaxTasks
    /\ IF body.kind \in {"empty", "not_allowed"}
       THEN /\ step' = Step("patch_tag", "", "400", 0, 0)
            /\ UNCHANGED <<store_tags, store_values, opc_tasks>>
       ELSE IF ~HasTag(store_tags, tid)
       THEN /\ step' = Step("patch_tag", "", "404", 0, 0)
            /\ UNCHANGED <<store_tags, store_values, opc_tasks>>
       ELSE IF body.kind = "address"
       THEN /\ store_tags' = TagStore_update_tag(store_tags, tid, body.address)
            /\ step' = Step("patch_tag", "", "200", 0, 0)
            /\ UNCHANGED <<store_values, opc_tasks>>
       ELSE /\ store_values' = set_value(store_values, tid, "patched")
            /\ opc_tasks' = [schedule_on_opc_loop(opc_tasks, "update", tid)
                               EXCEPT ![Len(opc_tasks) + 1].val = "patched"]
            /\ step' = Step("patch_tag", "", "200", 0, 0)
            /\ UNCHANGED store_tags
    /\ UNCHANGED <<bridgeIdle, ua_nodes, opcua_vars>>

\* the loop starts the coroutines in the order they were submitted
IsNext(i) ==
    /\ i \in 1..Len(opc_tasks)
    /\ opc_tasks[i].at = "new"
    /\ \A j \in 1..(i - 1) : opc_tasks[j].at # "new"

DropTask(i) == [j \in 1..(Len(opc_tasks) - 1) |->
                  IF j < i THEN opc_tasks[j] ELSE opc_tasks[j + 1]]

HasNode(nodes, tid) == \E i \in 1..Len(nodes) : nodes[i].tag_id = tid

\* opcua_vars[tid] = node
SetNode(nodes, tid, val) ==
    IF HasNode(nodes, tid)
    THEN [i \in 1..Len(nodes) |->
            IF nodes[i].tag_id = tid THEN [tag_id |-> tid, value |-> val]
            ELSE nodes[i]]
    ELSE Append(nodes, [tag_id |-> tid, value |-> val])

\* _create_opcua_node_async up to "await opcua_objects_node.add_variable".
\* The call names the namespace index and tid, not a node id, so the server
\* adds one more node under an id of its own choice.
CreateNodeBegin(i) ==
    /\ IsNext(i)
    /\ opc_tasks[i].coro = "create"
    /\ ua_nodes[opc_tasks[i].tag_id] < MaxNodes
    /\ ua_nodes' = [ua_nodes EXCEPT ![opc_tasks[i].tag_id] = @ + 1]
    /\ opc_tasks' = [opc_tasks EXCEPT ![i].at = "added",
                                      ![i].val = get_value(opc_tasks[i].tag_id)]
    /\ step' = Step("_create_opcua_node_async", "", "", 0, 0)
    /\ UNCHANGED <<bridgeIdle, store_tags, store_values, opcua_vars>>

\* _create_opcua_node_async from there to its end
CreateNodeEnd(i) ==
    /\ i \in 1..Len(opc_tasks)
    /\ opc_tasks[i].at = "added"
    /\ opcua_vars' = SetNode(opcua_vars, opc_tasks[i].tag_id, opc_tasks[i].val)
    /\ opc_tasks' = DropTask(i)
    /\ step' = Step("_create_opcua_node_async", "", "", 0, 0)
    /\ UNCHANGED <<bridgeIdle, ua_nodes, store_tags, store_values>>

\* _delete_opcua_node_async up to "await node.delete()"
DeleteNodeBegin(i) ==
    /\ IsNext(i)
    /\ opc_tasks[i].coro = "delete"
    /\ opc_tasks' = IF HasNode(opcua_vars, opc_tasks[i].tag_id)
                    THEN [opc_tasks EXCEPT ![i].at = "deleting"]
                    ELSE DropTask(i)
    /\ step' = Step("_delete_opcua_node_async", "", "", 0, 0)
    /\ UNCHANGED <<bridgeIdle, ua_nodes, store_tags, store_values, opcua_vars>>

\* _delete_opcua_node_async from there to its end: node.delete() deletes the
\* node the entry held, and the entry is popped
DeleteNodeEnd(i) ==
    /\ i \in 1..Len(opc_tasks)
    /\ opc_tasks[i].at = "deleting"
    /\ ua_nodes' = [ua_nodes EXCEPT ![opc_tasks[i].tag_id] = Max(0, @ - 1)]
    /\ step' = Step("_delete_opcua_node_async", "", "", 0, 0)
    /\ opcua_vars' = SelectSeq(opcua_vars,
                               LAMBDA x : x.tag_id # opc_tasks[i].tag_id)
    /\ opc_tasks' = DropTask(i)
    /\ UNCHANGED <<bridgeIdle, store_tags, store_values>>

\* _update_opcua_value_async: the node, if there is one, gets the value
UpdateNode(i) ==
    /\ IsNext(i)
    /\ opc_tasks[i].coro = "update"
    /\ opcua_vars' = IF HasNode(opcua_vars, opc_tasks[i].tag_id)
                     THEN SetNode(opcua_vars, opc_tasks[i].tag_id, opc_tasks[i].val)
                     ELSE opcua_vars
    /\ opc_tasks' = DropTask(i)
    /\ step' = Step("_update_opcua_value_async", "", "", 0, 0)
    /\ UNCHANGED <<bridgeIdle, ua_nodes, store_tags, store_values>>

\* the runs of the bridge start with the mock drivers configured and with a
\* tags file whose tags are like the ones the requests describe
InitBridge ==
    /\ Init
    /\ GATEWAY_MOCK_PLC
    /\ ~GATEWAY_MOCK_FAIL_RECONNECT
    /\ \A i \in 1..Len(store_tags) : store_tags[i] = PayloadTag(store_tags[i].tag_id)

NextBridge ==
    \/ StartServer
    \/ MirrorNodes
    \/ \E body \in Bodies : add_tag(body)
    \/ \E tid \in TagIds : delete_tag(tid)
    \/ \E r \in BOOLEAN, body \in Bodies : import_tags(r, body)
    \/ \E i \in 1..MaxTasks : CreateNodeBegin(i)
    \/ \E i \in 1..MaxTasks : CreateNodeEnd(i)
    \/ \E i \in 1..MaxTasks : DeleteNodeBegin(i)
    \/ \E i \in 1..MaxTasks : DeleteNodeEnd(i)

SpecBridge == InitBridge /\ [][NextBridge]_vars

\* The tag routes by themselves: the coroutines they submit stay pending, the
\* Tag Store being out of their reach.
NextRest ==
    \/ StartServer
    \/ MirrorNodes
    \/ \E body \in Bodies : add_tag(body)
    \/ \E tid \in TagIds : get_tag(tid)
    \/ \E tid \in TagIds : delete_tag(tid)
    \/ \E r \in BOOLEAN, body \in Bodies : import_tags(r, body)
    \/ \E tid \in TagIds, body \in PatchBodies : patch_tag(tid, body)

SpecRest == InitBridge /\ [][NextRest]_vars

----------------------------------------------------------------------------
(* Properties *)

IsTick(s, p) == s.op = "try_reconnect_helper" /\ s.plc = p
IsRead(s, p) == s.op = "read_tags" /\ s.plc = p

\* C1: a reconnect tick whose gate is open, whose driver is not connected and
\* cannot be opened, and whose driver constructor raises, adds exactly 1 to
\* fail_count, appends one (now, "recreate error") entry to recent_errors,
\* sets last_backoff = compute_backoff_delay(new fail_count) and next_attempt
\* = now + last_backoff, and returns the driver it was given; and whenever
\* fail_count = k >= 1, last_backoff = min(BASE * 2^(k-1), MAX).
C1_ReconnectFailurePath ==
    [][\A p \in PLCs :
         LET h == plc_health[p]
             h2 == plc_health'[p]
         IN /\ (IsTick(step', p) /\ step'.path = "recreate_error")
               => /\ now >= h.next_attempt
                  /\ ~driver[p].connected
                  /\ h2.fail_count = h.fail_count + 1
                  /\ Len(h2.recent_errors) = Len(h.recent_errors) + 1
                  /\ h2.recent_errors[Len(h2.recent_errors)] = <<now, "recreate error">>
                  /\ h2.last_backoff = compute_backoff_delay(h2.fail_count)
                  /\ h2.next_attempt = now + h2.last_backoff
                  /\ driver'[p] = driver[p]
            /\ h2.fail_count >= 1
               => h2.last_backoff =
                    Min(RECONNECT_BASE * (2 ^ (h2.fail_count - 1)), RECONNECT_MAX)]_vars

\* two failures in a row: fail_count = 2 and the delay has doubled
C1_Witness ==
    \E p \in PLCs :
        /\ IsTick(step, p)
        /\ step.path = "recreate_error"
        /\ plc_health[p].fail_count = 2
        /\ Len(plc_health[p].recent_errors) = 2
        /\ plc_health[p].last_backoff = 2 * RECONNECT_BASE
        /\ plc_health[p].next_attempt = now + 2 * RECONNECT_BASE

\* C2: in a cycle where now < next_attempt holds for a controller, the tick
\* returns the driver unchanged and the cycle issues no driver read for that
\* controller, whatever the driver's connected flag is.
C2_BackoffGate ==
    [][\A p \in PLCs :
         now < plc_health[p].next_attempt
         => /\ IsTick(step', p) => driver'[p] = driver[p]
            /\ IsRead(step', p) => step'.calls = 0]_vars

\* C3: for every controller, fail_count = 0 exactly when next_attempt = 0 and
\* the last_backoff that /hmi/health reports is 0.
C3_HealthInvariant ==
    \A p \in PLCs :
        (plc_health[p].fail_count = 0)
        <=> (plc_health[p].next_attempt = 0 /\ HealthLastBackoff(plc_health[p]) = 0)

RECURSIVE Doubled(_, _)
Doubled(base, k) == IF k = 0 THEN base ELSE 2 * Doubled(base, k - 1)

\* C4: compute_backoff_delay(n) is 0 for n <= 0 and min(BASE * 2^(n-1), MAX)
\* for n >= 1; it never exceeds MAX, it is non-decreasing in n, and with
\* BASE = 1, MAX = 4 its values for n = 0..4 are 0, 1, 2, 4, 4.
C4_BackoffDelay ==
    step.op = "compute_backoff_delay"
    => /\ backoff_arg <= 0 => backoff_ret = 0
       /\ backoff_arg >= 1
          => backoff_ret = Min(Doubled(RECONNECT_BASE, backoff_arg - 1), RECONNECT_MAX)
       /\ backoff_ret <= RECONNECT_MAX
       /\ \A m \in (0 - MaxArg)..backoff_arg : compute_backoff_delay(m) <= backoff_ret
       /\ (RECONNECT_BASE = 1 /\ RECONNECT_MAX = 4)
          => <<compute_backoff_delay(0), compute_backoff_delay(1),
               compute_backoff_delay(2), compute_backoff_delay(3),
               compute_backoff_delay(4)>> = <<0, 1, 2, 4, 4>>

\* a call where the cap applies: BASE = 1, MAX = 4, n = 4 gives 4, not 8
C4_Witness ==
    /\ step.op = "compute_backoff_delay"
    /\ RECONNECT_BASE = 1
    /\ RECONNECT_MAX = 4
    /\ backoff_arg = 4
    /\ backoff_ret = 4

\* the address configured for a tag of the store
TagAddress(tid) ==
    store_tags[CHOOSE i \in 1..Len(store_tags) : store_tags[i].tag_id = tid].address

\* C5: a value a controller read stores in the Tag Store is stored under the
\* tag whose address was the one read, for any mix of enabled tags of the
\* controller, tags with an empty address included.
C5_PublishCorrespondence ==
    [][\A p \in PLCs : \A tid \in TagIds :
         (IsRead(step', p) /\ store_values'[tid] # store_values[tid])
         => /\ HasTag(store_tags, tid)
            /\ store_values'[tid] = TagAddress(tid)]_vars

\* C6: a read step in which the driver reads raise records the failure in the
\* controller's health (one more recent_errors entry, fail_count + 1, ok not
\* true), leaves next_attempt and last_backoff as they were, and changes no
\* Tag Store value.
C6_ReadFailure ==
    [][\A p \in PLCs :
         (IsRead(step', p) /\ step'.calls > 0 /\ step'.raised = step'.calls)
         => /\ plc_health'[p].fail_count = plc_health[p].fail_count + 1
            /\ Len(plc_health'[p].recent_errors) = Len(plc_health[p].recent_errors) + 1
            /\ ~plc_health'[p].ok
            /\ plc_health'[p].next_attempt = plc_health[p].next_attempt
            /\ plc_health'[p].last_backoff = plc_health[p].last_backoff
            /\ store_values' = store_values]_vars

ReadableTags ==
    {i \in 1..Len(store_tags) : store_tags[i].enabled /\ store_tags[i].address # ""}

\* C8: whenever server_ready is true, some controller's read has succeeded
\* (its health has ok = true and last_success > 0); stated for the runs that
\* have a tag to read.
C8_ReadyMeansSuccessfulPoll ==
    (server_ready /\ ReadableTags # {})
    => \E p \in PLCs : plc_health[p].ok /\ plc_health[p].last_success > 0

\* C9: once server_ready is true it is true in every later state, and a 200
\* from /hmi/ready is never followed by a 503.
C9_ReadinessMonotonic ==
    [][/\ server_ready => server_ready'
       /\ get_hmi_ready = 200 => get_hmi_ready' = 200]_vars

\* ready, then a failed reconnect, a shutdown, and still ready
C9_Witness ==
    /\ server_ready
    /\ get_hmi_ready = 200
    /\ pc = "done"
    /\ shutdown_event
    /\ \E p \in PLCs : plc_health[p].fail_count > 0 /\ ~plc_health[p].ok

NodeIds == {opcua_vars[i].tag_id : i \in 1..Len(opcua_vars)}

\* C10: once every coroutine submitted to the OPC UA loop has run, every key
\* of opcua_vars is the id of a tag of the Tag Store.
C10_BindingReconciliation ==
    opc_tasks = <<>> => NodeIds \subseteq StoredIds

\* the tags TagStore.add_tag stored together with a value
AddedIds == {tid \in StoredIds : store_values[tid] # NoValue}

\* C11: once the OPC UA loop is published and every coroutine submitted to
\* it has run, every tag added to the Tag Store has an entry in opcua_vars.
C11_BindingsFollowTags ==
    (opcua_loop_set /\ opc_tasks = <<>>) => AddedIds \subseteq NodeIds

\* C12: every tag_id of the Tag Store's metadata has a value entry.
C12_EveryTagHasValue ==
    \A i \in 1..Len(store_tags) : store_values[store_tags[i].tag_id] # NoValue

\* C13: a POST /tags, PUT /tags/import or PATCH /tags/<id> answered with 400
\* leaves the Tag Store's metadata and values as they were.
C13_RejectedLeavesStore ==
    [][(step'.op \in {"add_tag", "import_tags", "patch_tag"} /\ step'.path = "400")
       => (store_tags' = store_tags /\ store_values' = store_values)]_vars

\* C14: the poller hands the read functions to worker threads only when no
\* read function of an earlier cycle is still running, so no driver object
\* has two reads in progress, also after the poller was cancelled.
C14_NoOverlappingReads ==
    [][(pc' = "reads" /\ pc # "reads") => pending = {}]_vars

\* reads of a later cycle are running
C14_Witness == cycles >= 1 /\ pc = "reads" /\ pending = PLCs

----------------------------------------------------------------------------
(* read_slc500_tags on its worker thread, one statement at a time *)

readIdle == <<envVars, patch_req, typedVars, ua_nodes, stopVars, callVars, health_resp, now, driver, store_tags, opcua_vars,
              write_todo, pc, pending, shutdown_event, shutdown_scheduled,
              server_ready, plc_last_update, ready_file_writes, cycles>>

\* the entry of the function: the stop check, the connected check, the tags
SlcEntry ==
    /\ slc_pc = "idle"
    /\ pc \notin {"start", "mirror", "drivers"}
    /\ LET slc_tags == SelectSeq(list_tags,
                          LAMBDA x : x.plc_id = "slc500" /\ x.enabled)
       IN IF shutdown_event
          THEN /\ step' = Step("read_slc500_tags", "slc500", "shutdown", 0, 0)
               /\ UNCHANGED <<plc_health, slc_pc, slc_todo>>
          ELSE IF ~driver["slc500"].connected
          THEN /\ plc_health' = [plc_health EXCEPT
                                   !["slc500"] = MarkNotConnected(@)]
               /\ step' = Step("read_slc500_tags", "slc500", "not_connected", 0, 0)
               /\ UNCHANGED <<slc_pc, slc_todo>>
          ELSE IF Len(slc_tags) = 0
          THEN /\ step' = Step("read_slc500_tags", "slc500", "no_tags", 0, 0)
               /\ UNCHANGED <<plc_health, slc_pc, slc_todo>>
          ELSE /\ slc_pc' = "loop"
               /\ slc_todo' = slc_tags
               /\ step' = Step("read_slc500_tags", "slc500", "entry", 0, 0)
               /\ UNCHANGED plc_health
    /\ UNCHANGED <<readIdle, store_values>>

\* one pass of "for t in slc_tags": a tag without address is skipped,
\* otherwise plc.read(addr) is called and its value stored unless it has an
\* error or the call raises
SlcLoop ==
    /\ slc_pc = "loop"
    /\ slc_todo # <<>>
    /\ LET t == Head(slc_todo)
       IN IF ~HasAddress(t)
          THEN /\ step' = Step("read_slc500_tags", "slc500", "continue", 0, 0)
               /\ UNCHANGED store_values
          ELSE \E res \in {"ok", "err", "raise"} :
                 /\ store_values' = IF res = "ok"
                                    THEN set_value(store_values, t.tag_id, t.address)
                                    ELSE store_values
                 /\ step' = Step("read_slc500_tags", "slc500", "plc.read", 1,
                                 IF res = "raise" THEN 1 ELSE 0)
    /\ slc_todo' = Tail(slc_todo)
    /\ UNCHANGED <<readIdle, plc_health, slc_pc>>

\* after the loop: the health entry records the success
SlcDone ==
    /\ slc_pc = "loop"
    /\ slc_todo = <<>>
    /\ plc_health' = [plc_health EXCEPT !["slc500"] = MarkReadSuccess(@, now)]
    /\ slc_pc' = "idle"
    /\ step' = Step("read_slc500_tags", "slc500", "read", 0, 0)
    /\ UNCHANGED <<readIdle, store_values, slc_todo>>

NextRead ==
    \/ StartServer
    \/ MirrorNodes
    \/ OpenMockDrivers
    \/ OpenDrivers
    \/ SlcEntry
    \/ SlcLoop
    \/ SlcDone
    \/ stop_hmi

SpecRead == Init /\ [][NextRead]_vars

\* C18: no driver.read call is started once the shutdown signal is set.
C18_NoReadAfterStop ==
    [][(step'.path = "plc.read" /\ step'.calls > 0) => ~shutdown_event]_vars

\* C19: a step that increments a controller's fail_count leaves the health
\* endpoint reporting last_backoff = compute_backoff_delay(fail_count) for
\* it, and the reported last_backoff is positive whenever fail_count is.
C19_HealthBackoff ==
    [][\A p \in PLCs :
         LET h == plc_health'[p]
         IN /\ h.fail_count > plc_health[p].fail_count
                 => HealthLastBackoff(h) = compute_backoff_delay(h.fail_count)
            /\ h.fail_count > 0 => HealthLastBackoff(h) > 0]_vars

\* a tick has just failed for the second time in a row
C19_Witness ==
    \E p \in PLCs : /\ IsTick(step, p)
                    /\ step.path \in {"recreate_error", "recreated_down"}
                    /\ plc_health[p].fail_count >= 2
                    /\ plc_health[p].last_backoff = compute_backoff_delay(2)

----------------------------------------------------------------------------
(* GET /hmi/health *)

\* the response with "age < 5" read as "age <= 5"
get_hmi_health_lenient(health, last, t) ==
    [status |-> IF last # 0 /\ t - last <= HealthMaxAge THEN "ok" ELSE "degraded",
     last_plc_update |-> last,
     plc_health |-> [p \in PLCs |->
        [ok |-> health[p].ok, fail_count |-> health[p].fail_count,
         next_attempt |-> health[p].next_attempt,
         last_backoff |-> HealthLastBackoff(health[p])]]]

\* the response built from plc_last_update, the clock and plc_health
get_hmi_health(health, last, t) ==
    [status |-> IF last # 0 /\ t - last < HealthMaxAge THEN "ok" ELSE "degraded",
     last_plc_update |-> last,
     plc_health |-> [p \in PLCs |->
        [ok |-> health[p].ok, fail_count |-> health[p].fail_count,
         next_attempt |-> health[p].next_attempt,
         last_backoff |-> HealthLastBackoff(health[p])]]]

\* the handler: it reads the globals and writes none of them
GetHealth ==
    /\ health_resp' = get_hmi_health(plc_health, plc_last_update, now)
    /\ step' = Step("get_hmi_health", "", "200", 0, 0)
    /\ UNCHANGED <<envVars, patch_req, typedVars, ua_nodes, stopVars, callVars, slc_pc, slc_todo, now, plc_health,
                   driver, store_tags, store_values, opcua_vars, write_todo, pc,
                   pending, shutdown_event, shutdown_scheduled, server_ready,
                   plc_last_update, ready_file_writes, cycles>>

\* What the response is computed from: any clock and last update, and for
\* compactlogix any fail_count with last_backoff never recorded or recorded.
InitHealthCall ==
    /\ GATEWAY_MOCK_PLC = FALSE
    /\ GATEWAY_MOCK_FAIL_RECONNECT = FALSE
    /\ READY_FILE = FALSE
    /\ adverse = "compactlogix"
    /\ RECONNECT_BASE = EnvReconnectBase
    /\ RECONNECT_MAX = EnvReconnectMax
    /\ now \in EpochStart..MaxClock
    /\ plc_last_update \in 0..now
    /\ \E fc \in 0..MaxFails, lb \in {Unset} \cup 0..EnvReconnectMax :
         plc_health = [p \in PLCs |->
            IF p = "compactlogix"
            THEN [InitHealth EXCEPT !.fail_count = fc, !.last_backoff = lb]
            ELSE InitHealth]
    /\ driver = [p \in PLCs |-> NoDriver]
    /\ store_tags \in TagConfigs
    /\ store_values = [tid \in TagIds |-> IF tid \in StoredIds THEN "init" ELSE NoValue]
    /\ opcua_vars = <<>>
    /\ write_todo = <<>>
    /\ pc = "sleep"
    /\ pending = {}
    /\ shutdown_event = FALSE
    /\ shutdown_scheduled = FALSE
    /\ server_ready = (plc_last_update # 0)
    /\ ready_file_writes = 0
    /\ cycles = 0
    /\ step = Step("import", "", "", 0, 0)
    /\ opc_tasks = <<>>
    /\ mirror_todo = <<>>
    /\ backoff_arg = 0
    /\ backoff_ret = 0
    /\ server_stopped = FALSE
    /\ run_returned = FALSE
    /\ http_stop = FALSE
    /\ slc_pc = "idle"
    /\ slc_todo = <<>>
    /\ health_resp = NoResponse
    /\ TypedStoreEmpty
    /\ ua_nodes = [tid \in TagIds |-> 0]
    /\ patch_req = NoPatch

NextHealth == GetHealth

SpecHealth == InitHealthCall /\ [][NextHealth]_vars

\* C20: the response of GET /hmi/health has status "ok" exactly when
\* plc_last_update is not 0 and less than 5 seconds old; for each controller
\* it reports the recorded last_backoff, or compute_backoff_delay(fail_count)
\* when none was recorded; the handler changes neither plc_health nor the
\* Tag Store.
C20_HealthMapping ==
    [][step'.op = "get_hmi_health" =>
         /\ (health_resp'.status = "ok")
               <=> (plc_last_update # 0 /\ now - plc_last_update < 5)
         /\ health_resp'.status \in {"ok", "degraded"}
         /\ \A p \in PLCs :
              health_resp'.plc_health[p].last_backoff =
                 IF plc_health[p].last_backoff = Unset
                 THEN compute_backoff_delay(plc_health[p].fail_count)
                 ELSE plc_health[p].last_backoff
         /\ plc_health' = plc_health
         /\ store_tags' = store_tags
         /\ store_values' = store_values]_vars

\* a response "degraded" for an update exactly 5 seconds old, with a
\* last_backoff that came from the fallback
C20_Witness ==
    /\ step.op = "get_hmi_health"
    /\ health_resp.status = "degraded"
    /\ plc_last_update # 0
    /\ now - plc_last_update = 5
    /\ plc_health["compactlogix"].last_backoff = Unset
    /\ health_resp.plc_health["compactlogix"].last_backoff > 0

\* the poll task has ended, the OPC UA server is stopped, run_opcua_server
\* has returned
Terminated == pc = "done" /\ server_stopped /\ run_returned

\* C15: once POST /hmi/stop has set the shutdown signal, the gateway
\* eventually reaches the terminated state.
C15_StopTerminates == shutdown_event ~> Terminated

\* C16: the drivers are closed only after the OPC UA server was stopped, and
\* the HTTP server is asked to stop only after the drivers were closed.
C16_ShutdownOrder ==
    /\ run_returned => server_stopped
    /\ http_stop => run_returned

\* C17: when run_opcua_server has returned, no driver of the run is open.
C17_DriversClosed ==
    run_returned => \A p \in PLCs : ~driver[p].connected

\* C29: with GATEWAY_MOCK_FAIL_RECONNECT set, after every completed reconnect
\* tick of compactlogix the health endpoint shows fail_count >= 1 and
\* last_backoff > 0 for it.
C29_ForcedFailureEveryTick ==
    [][(GATEWAY_MOCK_FAIL_RECONNECT /\ IsTick(step', "compactlogix"))
         => /\ plc_health'["compactlogix"].fail_count >= 1
            /\ HealthLastBackoff(plc_health'["compactlogix"]) > 0]_vars

\* C30: a tick whose gate is open, whose driver is not connected and cannot
\* be opened, and whose freshly constructed driver does not connect either,
\* increments fail_count, sets last_backoff to the delay and next_attempt to
\* now + delay, and returns the driver it was given.
C30_OpenFailureBackoff ==
    [][\A p \in PLCs :
         LET h == plc_health[p]
             h2 == plc_health'[p]
         IN (IsTick(step', p) /\ step'.path = "recreated_down")
              => /\ h2.fail_count = h.fail_count + 1
                 /\ h2.last_backoff = compute_backoff_delay(h2.fail_count)
                 /\ h2.next_attempt = now + h2.last_backoff
                 /\ driver'[p] = driver[p]]_vars

BodyIds(body) == {body[i].tag_id : i \in 1..Len(body)}

\* C22: a PUT /tags/import answered 200 with replace_all leaves exactly the
\* tags of its body in the store; without replace_all it leaves the tags
\* that were there and those of its body.
C22_ImportReplace ==
    [][(step'.op = "import_tags" /\ step'.path = "200")
         => \A r \in BOOLEAN, body \in Bodies :
               import_tags(r, body)
                  => StoredIds' = IF r THEN BodyIds(body)
                                  ELSE StoredIds \cup BodyIds(body)]_vars

\* an import with replace_all has just replaced T1 by T2 (T1 is still in the
\* list run_opcua_server took to mirror)
C22_Witness ==
    /\ step.op = "import_tags"
    /\ step.path = "200"
    /\ StoredIds = {"T2"}
    /\ mirror_todo = <<"T1">>

\* C23: a POST /tags or PUT /tags/import whose body has a tag with a
\* data_type that is not a string is answered 400, and that tag is not
\* created.
C23_CreateValidation ==
    [][step'.op \in {"add_tag", "import_tags"}
         => \A r \in BOOLEAN, body \in Bodies :
              \A i \in 1..Len(body) :
                 (body[i].kind = "bad_dtype" /\ (add_tag(body) \/ import_tags(r, body)))
                    => /\ step'.path = "400"
                       /\ body[i].tag_id \notin StoredIds
                             => body[i].tag_id \notin StoredIds']_vars

\* C24: a GET, PATCH or DELETE answered 404 leaves the metadata and the
\* values of the Tag Store as they were and submits no OPC UA node operation.
C24_NotFoundNoMutation ==
    [][(step'.op \in {"get_tag", "patch_tag", "delete_tag"} /\ step'.path = "404")
         => /\ store_tags' = store_tags
            /\ store_values' = store_values
            /\ opc_tasks' = opc_tasks]_vars

\* a DELETE of a tag the store does not hold was answered 404 while the OPC
\* UA loop takes submissions
C24_Witness ==
    /\ step.op = "delete_tag"
    /\ step.path = "404"
    /\ opcua_loop_set
    /\ Len(opc_tasks) < MaxTasks

----------------------------------------------------------------------------
(* The Tag Store and the tag routes with typed values.  scale_mul, scale_add
   and decimals stay at their defaults (1.0, 0.0, null).  A data_type is the
   sequence of its characters.  A number is a pair: c digits, the last e of
   them after the decimal point, so that 1.2300 is c = 12300, e = 4. *)

DT_Boolean == <<"B", "o", "o", "l", "e", "a", "n">>
DT_Int16 == <<"I", "n", "t", "1", "6">>
DT_Int32 == <<"I", "n", "t", "3", "2">>
DT_Int64 == <<"I", "n", "t", "6", "4">>
DT_UInt32 == <<"U", "I", "n", "t", "3", "2">>
DT_Float == <<"F", "l", "o", "a", "t">>
DT_Double == <<"D", "o", "u", "b", "l", "e">>
DT_String == <<"S", "t", "r", "i", "n", "g">>

DataTypes == {DT_Boolean, DT_Int16, DT_Int32, DT_Int64, DT_UInt32, DT_Float,
              DT_Double, DT_String}

\* str.lower() on the letters the data types are written with
LowerChar(ch) ==
    CASE ch = "B" -> "b" [] ch = "I" -> "i" [] ch = "U" -> "u" [] ch = "F" -> "f"
      [] ch = "D" -> "d" [] ch = "S" -> "s" [] OTHER -> ch

Lower(str) == [i \in 1..Len(str) |-> LowerChar(str[i])]

\* str.startswith(prefix)
StartsWith(str, prefix) ==
    /\ Len(prefix) <= Len(str)
    /\ SubSeq(str, 1, Len(prefix)) = prefix

\* "sub in str"
Contains(str, sub) ==
    \E i \in 1..(Len(str) - Len(sub) + 1) : SubSeq(str, i, i + Len(sub) - 1) = sub

\* the raw values of the store and the values of a JSON body
VBool(b) == [k |-> "bool", b |-> b]
VInt(n) == [k |-> "int", c |-> n, e |-> 0]
VFloat(c, e) == [k |-> "float", c |-> c, e |-> e]
VDecimal(c, e) == [k |-> "decimal", c |-> c, e |-> e]
VNumStr(c, e) == [k |-> "str", numeric |-> TRUE, c |-> c, e |-> e]
VText(t) == [k |-> "str", numeric |-> FALSE, text |-> t]

\* TagStore.add_tag, the default when initial_value is None
DefaultValue(data_type) ==
    LET dt == Lower(data_type)
    IN IF StartsWith(dt, <<"b", "o", "o", "l">>) THEN VBool(FALSE)
       ELSE IF Contains(dt, <<"i", "n", "t">>) THEN VInt(0)
       ELSE VFloat(0, 1)

\* Decimal(str(raw)): the digits of an int, a float, a Decimal or a string
\* that reads as a number; anything else raises
CanDecimal(raw) ==
    \/ raw.k \in {"int", "float", "decimal"}
    \/ raw.k = "str" /\ raw.numeric

\* TagStore.get_value with default scaling and decimals None
ts_get_value(raw, tag_known, data_type) ==
    IF raw.k = "none" THEN VNone
    ELSE IF ~tag_known THEN raw
    ELSE IF raw.k = "bool" \/ StartsWith(Lower(data_type), <<"b", "o", "o", "l">>)
    THEN raw
    ELSE IF CanDecimal(raw) THEN VDecimal(raw.c, raw.e)
    ELSE raw

\* a number without its trailing zeros after the point
RECURSIVE Normal(_, _)
Normal(c, e) ==
    IF e > 0 /\ c % 10 = 0 THEN Normal(c \div 10, e - 1) ELSE [c |-> c, e |-> e]

JNumber(c, e) == [j |-> "number", c |-> Normal(c, e).c, e |-> Normal(c, e).e]
JString(v) == [j |-> "string", v |-> v]
JBool(b) == [j |-> "bool", b |-> b]
JNull == [j |-> "null"]

\* _json_response: a Decimal becomes an int when integral and a float
\* otherwise; everything else is dumped as it is
JsonConvert(val) ==
    IF val.k = "none" THEN JNull
    ELSE IF val.k = "bool" THEN JBool(val.b)
    ELSE IF val.k = "str" THEN JString(val)
    ELSE JNumber(val.c, val.e)

\* get_tag: the "value" of the response; str(val) when the raw value and the
\* converted value are both Decimal
ResponseValue(raw, data_type) ==
    LET val == ts_get_value(raw, TRUE, data_type)
    IN IF raw.k = "decimal" /\ val.k = "decimal"
       THEN JString(VNumStr(val.c, val.e))
       ELSE JsonConvert(val)

\* what a client reads a raw value as: the JSON value of the same kind
JsonOf(raw) ==
    IF raw.k = "none" THEN JNull
    ELSE IF raw.k = "bool" THEN JBool(raw.b)
    ELSE IF raw.k = "str" THEN JString(raw)
    ELSE IF raw.k = "decimal" THEN JString(VNumStr(raw.c, raw.e))
    ELSE JNumber(raw.c, raw.e)

\* what the calls carry: every data type for the first tag, one for the other
TypeChoice(tid) == IF tid = TagOrder[1] THEN DataTypes ELSE {DT_Double}

\* the data types of the request bodies
RestTypes(tid) ==
    IF tid = TagOrder[1] THEN {DT_Boolean, DT_Int32, DT_Double, DT_String} ELSE {DT_Double}

\* the values of a JSON body, VNone for a value that is absent or null
JsonInputs(tid) ==
    IF tid = TagOrder[1]
    THEN {VNone, VBool(TRUE), VInt(5), VFloat(15, 1), VText("abc"), VNumStr(12, 0)}
    ELSE {VNone, VInt(5)}

\* the values a caller of the store can pass: those, and a Decimal
StoreInputs(tid) ==
    IF tid = TagOrder[1] THEN JsonInputs(tid) \cup {VDecimal(12300, 4)} ELSE JsonInputs(tid)

\* the initial values add_tag is called with: none, or a Decimal as the
\* poller and the tests pass
InitialInputs(tid) == IF tid = TagOrder[1] THEN {VNone, VDecimal(12300, 4)} ELSE {VNone}

TypedIds == {tid \in TagIds : ts_tags[tid] # NoTag}

\* the Tag object a holder got from get_tag stays the store's object until
\* the store drops or replaces it
Dropped(tid) == IF held.tag_id = tid THEN [held EXCEPT !.live = FALSE] ELSE held

storeIdle == <<envVars, patch_req, ua_nodes, readVars, stopVars, backoff_arg, backoff_ret, mirror_todo, now,
               plc_health, driver, store_tags, store_values, opcua_vars, write_todo, pc,
               pending, shutdown_event, shutdown_scheduled, server_ready,
               plc_last_update, ready_file_writes, cycles>>

\* TagStore.add_tag(tag, initial_value)
AddTagTo(tags, values, tid, data_type, initial_value) ==
    [tags |-> [tags EXCEPT ![tid] = [present |-> TRUE, data_type |-> data_type]],
     values |-> [values EXCEPT ![tid] = IF initial_value = VNone
                                         THEN DefaultValue(data_type)
                                         ELSE initial_value]]

ts_add_tag(tid, data_type, initial_value) ==
    /\ ts_tags' = AddTagTo(ts_tags, ts_values, tid, data_type, initial_value).tags
    /\ ts_values' = AddTagTo(ts_tags, ts_values, tid, data_type, initial_value).values
    /\ held' = Dropped(tid)
    /\ step' = Step("TagStore.add_tag", "", IF initial_value = VNone THEN "default" ELSE "given", 0, 0)
    /\ UNCHANGED <<storeIdle, opc_tasks>>

\* TagStore.remove_tag: the tag and its value are popped
ts_remove_tag(tid) ==
    /\ ts_tags' = [ts_tags EXCEPT ![tid] = NoTag]
    /\ ts_values' = [ts_values EXCEPT ![tid] = VNone]
    /\ held' = Dropped(tid)
    /\ step' = Step("TagStore.remove_tag", "", "", 0, 0)
    /\ UNCHANGED <<storeIdle, opc_tasks>>

\* TagStore.clear_tags
ts_clear_tags ==
    /\ ts_tags' = [tid \in TagIds |-> NoTag]
    /\ ts_values' = [tid \in TagIds |-> VNone]
    /\ held' = [held EXCEPT !.live = FALSE]
    /\ step' = Step("TagStore.clear_tags", "", "", 0, 0)
    /\ UNCHANGED <<storeIdle, opc_tasks>>

\* TagStore.set_value: the value is stored whether the tag is known or not
ts_set_value(tid, value) ==
    /\ ts_values' = [ts_values EXCEPT ![tid] = value]
    /\ step' = Step("TagStore.set_value", "", IF tid \in TypedIds THEN "known" ELSE "unknown", 0, 0)
    /\ UNCHANGED <<ts_tags, held>>
    /\ UNCHANGED <<storeIdle, opc_tasks>>

\* TagStore.get_value(tag_id)
ts_get_value_of(tid) ==
    ts_get_value(ts_values[tid], tid \in TypedIds,
                       IF tid \in TypedIds THEN ts_tags[tid].data_type ELSE <<>>)

\* TagStore.get_tag: the caller is handed the Tag object of the store
ts_get_tag(tid) ==
    /\ tid \in TypedIds
    /\ held' = [tag_id |-> tid, live |-> TRUE, data_type |-> ts_tags[tid].data_type]
    /\ step' = Step("TagStore.get_tag", "", "", 0, 0)
    /\ UNCHANGED <<ts_tags, ts_values>>
    /\ UNCHANGED <<storeIdle, opc_tasks>>

\* TagStore.list_tags: the caller is handed a dict built for the call
ts_list_tags(tid) ==
    /\ tid \in TypedIds
    /\ held' = [tag_id |-> tid, live |-> FALSE, data_type |-> ts_tags[tid].data_type]
    /\ step' = Step("TagStore.list_tags", "", "", 0, 0)
    /\ UNCHANGED <<ts_tags, ts_values>>
    /\ UNCHANGED <<storeIdle, opc_tasks>>

\* TagStore.update_tag(tag_id, data_type=...): setattr on the stored object
UpdateTagIn(tags, tid, data_type) ==
    IF tags[tid] = NoTag THEN tags
    ELSE [tags EXCEPT ![tid].data_type = data_type]

SeenBy(h, tid, data_type) ==
    IF h.live /\ h.tag_id = tid THEN [h EXCEPT !.data_type = data_type] ELSE h

ts_update_tag(tid, data_type) ==
    /\ ts_tags' = UpdateTagIn(ts_tags, tid, data_type)
    /\ held' = IF tid \in TypedIds THEN SeenBy(held, tid, data_type) ELSE held
    /\ step' = Step("TagStore.update_tag", "", IF tid \in TypedIds THEN "true" ELSE "false", 0, 0)
    /\ UNCHANGED ts_values
    /\ UNCHANGED <<storeIdle, opc_tasks>>

\* the holder assigns to a field of what it was handed
MutateHeld(data_type) ==
    /\ held.tag_id # ""
    /\ held' = [held EXCEPT !.data_type = data_type]
    /\ ts_tags' = IF held.live THEN UpdateTagIn(ts_tags, held.tag_id, data_type) ELSE ts_tags
    /\ step' = Step("mutate", "", IF held.live THEN "get_tag" ELSE "list_tags", 0, 0)
    /\ UNCHANGED ts_values
    /\ UNCHANGED <<storeIdle, opc_tasks>>

\* GET /tags/<tag_id>
GetTagResponse(tid) ==
    IF tid \notin TypedIds THEN [status |-> "404"]
    ELSE [status |-> "200", tag_id |-> tid, data_type |-> ts_tags[tid].data_type,
          value |-> ResponseValue(ts_values[tid], ts_tags[tid].data_type)]

\* GET /tags and GET /hmi/data: the ids they list are the keys of _tags
ListedIds == TypedIds

\* POST /tags with one tag
api_add_tag(tid, data_type, initial_value) ==
    /\ Len(opc_tasks) < MaxTasks
    /\ ts_tags' = AddTagTo(ts_tags, ts_values, tid, data_type, initial_value).tags
    /\ ts_values' = AddTagTo(ts_tags, ts_values, tid, data_type, initial_value).values
    /\ held' = Dropped(tid)
    /\ opc_tasks' = schedule_on_opc_loop(opc_tasks, "create", tid)
    /\ step' = Step("POST", "", "201", 0, 0)
    /\ UNCHANGED storeIdle

\* PATCH /tags/<tag_id> with data_type, value or both (VNone, <<>>: not in the body)
api_patch_tag(tid, data_type, value) ==
    /\ data_type # <<>> \/ value # VNone
    /\ IF tid \notin TypedIds
       THEN /\ step' = Step("PATCH", "", "404", 0, 0)
            /\ UNCHANGED <<ts_tags, ts_values, held, opc_tasks>>
       ELSE /\ ts_tags' = IF data_type # <<>> THEN UpdateTagIn(ts_tags, tid, data_type)
                          ELSE ts_tags
            /\ held' = IF data_type # <<>> THEN SeenBy(held, tid, data_type) ELSE held
            /\ ts_values' = IF value # VNone THEN [ts_values EXCEPT ![tid] = value]
                            ELSE ts_values
            /\ opc_tasks' = IF value # VNone
                            THEN schedule_on_opc_loop(opc_tasks, "update", tid)
                            ELSE opc_tasks
            /\ step' = Step("PATCH", "", "200", 0, 0)
    /\ UNCHANGED storeIdle

\* DELETE /tags/<tag_id>
api_delete_tag(tid) ==
    /\ IF tid \notin TypedIds
       THEN /\ step' = Step("DELETE", "", "404", 0, 0)
            /\ UNCHANGED <<ts_tags, ts_values, held, opc_tasks>>
       ELSE /\ ts_tags' = [ts_tags EXCEPT ![tid] = NoTag]
            /\ ts_values' = [ts_values EXCEPT ![tid] = VNone]
            /\ held' = Dropped(tid)
            /\ opc_tasks' = schedule_on_opc_loop(opc_tasks, "delete", tid)
            /\ step' = Step("DELETE", "", "200", 0, 0)
    /\ UNCHANGED storeIdle

\* the store used through its methods
NextStore ==
    \/ \E tid \in TagIds : \E dt \in TypeChoice(tid), v \in InitialInputs(tid) :
          ts_add_tag(tid, dt, v)
    \/ \E tid \in TagIds : ts_remove_tag(tid)
    \/ ts_clear_tags
    \/ \E tid \in TagIds : \E v \in StoreInputs(tid) \ {VNone} : ts_set_value(tid, v)
    \/ \E tid \in TagIds : ts_get_tag(tid)
    \/ \E tid \in TagIds : ts_list_tags(tid)
    \/ \E tid \in TagIds : \E dt \in TypeChoice(tid) : ts_update_tag(tid, dt)
    \/ \E dt \in {DT_Int32, DT_String} : MutateHeld(dt)

\* the store used through the tag routes
NextCrud ==
    \/ \E tid \in TagIds : \E dt \in RestTypes(tid), v \in JsonInputs(tid) :
          api_add_tag(tid, dt, v)
    \/ \E tid \in TagIds : \E dt \in RestTypes(tid) \cup {<<>>}, v \in JsonInputs(tid) :
          api_patch_tag(tid, dt, v)
    \/ \E tid \in TagIds : api_delete_tag(tid)

InitStore ==
    /\ Init
    /\ GATEWAY_MOCK_PLC
    /\ ~GATEWAY_MOCK_FAIL_RECONNECT
    /\ store_tags = <<>>

SpecStore == InitStore /\ [][NextStore]_vars

SpecCrud == InitStore /\ [][NextCrud]_vars

----------------------------------------------------------------------------
\* C21: after a successful POST of a tag, GET /tags/<id> answers 200 with the
\* posted data type and value; after a successful PATCH it answers with the
\* patched data type and value; after a successful DELETE it answers 404 and
\* the id is listed no more; and a request for one tag changes the answer
\* for no other tag.
C21_CrudRoundTrip ==
    [][(step'.op \in {"POST", "PATCH", "DELETE"} /\ step'.path \in {"200", "201"})
         => \A tid \in TagIds :
              LET others_kept ==
                      \A o \in TagIds \ {tid} : GetTagResponse(o)' = GetTagResponse(o)
              IN /\ \A dt \in RestTypes(tid), v \in JsonInputs(tid) :
                      api_add_tag(tid, dt, v)
                        => /\ GetTagResponse(tid)'.status = "200"
                           /\ GetTagResponse(tid)'.data_type = dt
                           /\ v # VNone => GetTagResponse(tid)'.value = JsonOf(v)
                           /\ others_kept
                 /\ \A dt \in RestTypes(tid) \cup {<<>>}, v \in JsonInputs(tid) :
                      api_patch_tag(tid, dt, v)
                        => /\ GetTagResponse(tid)'.status = "200"
                           /\ dt # <<>> => GetTagResponse(tid)'.data_type = dt
                           /\ v # VNone => GetTagResponse(tid)'.value = JsonOf(v)
                           /\ others_kept
                 /\ api_delete_tag(tid)
                        => /\ GetTagResponse(tid)'.status = "404"
                           /\ tid \notin ListedIds'
                           /\ others_kept]_vars

\* C25: get_value answers null for every id that has no metadata, whatever
\* was done with the id before.
C25_NoMetadataNoValue ==
    \A tid \in TagIds : tid \notin TypedIds => ts_get_value_of(tid) = VNone

\* C26: metadata handed out by get_tag or list_tags is not changed by a later
\* update_tag, add_tag or remove_tag, and assigning to it does not change the
\* store.
C26_DefensiveCopies ==
    [][/\ (/\ held.tag_id # ""
           /\ step'.op \in {"TagStore.update_tag", "TagStore.add_tag", "TagStore.remove_tag"})
          => held'.data_type = held.data_type
       /\ step'.op = "mutate" => ts_tags' = ts_tags]_vars

\* C27: a tag added without an initial value gets false when Boolean, 0 when
\* Int16, Int32, Int64 or UInt32, 0.0 when Float or Double, "" when String.
C27_InitialDefault ==
    [][(step'.op = "TagStore.add_tag" /\ step'.path = "default")
         => \A tid \in TagIds : \A dt \in TypeChoice(tid) :
              ts_add_tag(tid, dt, VNone)
                => ts_values'[tid] =
                     CASE dt = DT_Boolean -> VBool(FALSE)
                       [] dt \in {DT_Int16, DT_Int32, DT_Int64, DT_UInt32} -> VInt(0)
                       [] dt \in {DT_Float, DT_Double} -> VFloat(0, 1)
                       [] dt = DT_String -> VText("")]_vars

\* C28: GET /tags/<id> answers a stored Decimal as a string of the same
\* digits, trailing zeros included, and a stored bool, int, float or string
\* as the JSON boolean, number or string it corresponds to.
C28_DecimalPreservation ==
    \A tid \in TypedIds : GetTagResponse(tid).value = JsonOf(ts_values[tid])

----------------------------------------------------------------------------
\* C34: in every cycle the reconnect ticks come first, the reads follow, the
\* node writes start when both reads have returned, and plc_last_update is
\* advanced only when both reads have returned and every node write of the
\* cycle has been attempted; plc_last_update never decreases.
C34_PollCycleOrder ==
    [][/\ (\E p \in PLCs : IsTick(step', p)) => (pending = {} /\ write_todo = <<>>)
       /\ (pending' # {} /\ pending = {}) => pc = "gate"
       /\ (opcua_vars' # opcua_vars /\ pc = "opcua") => pending = {}
       /\ (write_todo' # write_todo) => pending = {}
       /\ (plc_last_update' # plc_last_update)
            => /\ pc = "opcua" /\ pending = {} /\ write_todo = <<>>
               /\ cycles' = cycles + 1
       /\ plc_last_update' >= plc_last_update]_vars

\* a second cycle with a node to write has run to its end
C34_Witness ==
    /\ cycles = 2
    /\ pc = "sleep"
    /\ plc_last_update = now
    /\ Len(opcua_vars) = 2
    /\ \E i \in 1..Len(opcua_vars) : opcua_vars[i].value = "A1"

\* C36: a poll of a controller changes the stored value of no tag that is
\* disabled, belongs to another controller or has an empty address, and it
\* issues no driver read when the controller has no enabled tag with an
\* address.
C36_PollFrame ==
    [][\A p \in PLCs :
         IsRead(step', p)
           => /\ \A i \in 1..Len(store_tags) :
                    (\/ ~store_tags[i].enabled
                     \/ store_tags[i].plc_id # p
                     \/ store_tags[i].address = "")
                      => store_values'[store_tags[i].tag_id]
                           = store_values[store_tags[i].tag_id]
              /\ (\A i \in ReadableTags : store_tags[i].plc_id # p)
                    => step'.calls = 0]_vars

\* C37: the drivers are not closed while a read function is still running
\* on a worker thread.
C37_NoCloseDuringRead ==
    [][(step'.op = "run_opcua_server" /\ step'.path = "return")
         => \A p \in pending : driver[p].gen # 1]_vars

\* C38: once the shutdown signal is set, server_ready does not become true
\* and READY_FILE is not written.
C38_NoReadinessAfterShutdown ==
    [][shutdown_event
         => /\ server_ready' => server_ready
            /\ ready_file_writes' = ready_file_writes]_vars

\* C39: a read function marks its controller's health as success (ok true,
\* last_success advanced, fail_count and next_attempt cleared) only when it
\* has called driver.read at least once.
C39_SuccessRequiresRead ==
    [][\A p \in PLCs :
         (/\ IsRead(step', p)
          /\ plc_health'[p].ok
          /\ plc_health'[p].last_success = now
          /\ step'.path = "read")
           => step'.calls >= 1]_vars

\* the steps that run on the OPC UA event loop
LoopOps == {"run_opcua_server", "plc_data_poller", "_create_opcua_node_async",
            "_delete_opcua_node_async", "_update_opcua_value_async"}

\* C33: opcua_vars is changed only by steps that run on the OPC UA event
\* loop; a tag route never changes it, it only submits coroutines, and while
\* opcua_loop is not set it submits nothing and still answers a valid
\* request with success.
C33_SingleWriter ==
    [][/\ opcua_vars' # opcua_vars => step'.op \in LoopOps
       /\ step'.op \in {"add_tag", "delete_tag", "import_tags", "patch_tag"}
            => /\ opcua_vars' = opcua_vars
               /\ ~opcua_loop_set
                    => /\ opc_tasks' = opc_tasks
                       /\ \A body \in Bodies :
                            (add_tag(body) /\ \A i \in 1..Len(body) : body[i].kind = "ok")
                              => step'.path = "201"
                       /\ \A tid \in StoredIds : delete_tag(tid) => step'.path = "200"]_vars

\* a tag posted before the loop was published has no coroutine; one posted
\* later got its node from the coroutine on the loop
C33_Witness ==
    /\ step.op = "_create_opcua_node_async"
    /\ opc_tasks = <<>>
    /\ StoredIds = TagIds
    /\ Cardinality(NodeIds) = 1

\* C40: when the coroutines submitted by POST, import and DELETE requests
\* have all run, the address space holds at most one node per tag id that
\* was created and not deleted, and opcua_vars has an entry for it.
C40_OneNodePerTag ==
    opc_tasks = <<>>
      => \A tid \in TagIds : /\ ua_nodes[tid] <= 1
                             /\ ua_nodes[tid] = 1 => tid \in NodeIds

----------------------------------------------------------------------------
(* PATCH with metadata and a value, followed call by call *)

\* a PATCH body with a metadata field and a value
PatchBoth == [kind |-> "both", address |-> ""]

\* what GET /tags/<tag_id> answers for a tag of the store
TagResponse(tid) == [address |-> TagAddress(tid), value |-> store_values[tid]]

\* PATCH /tags/<tag_id> up to the return of ts.update_tag: the store's lock
\* is released with the metadata written and the value not yet
patch_tag_update(tid, body) ==
    /\ patch_req = NoPatch
    /\ Len(opc_tasks) < MaxTasks
    /\ body.kind = "both"
    /\ IF ~HasTag(store_tags, tid)
       THEN /\ step' = Step("patch_tag", "", "404", 0, 0)
            /\ UNCHANGED <<store_tags, patch_req>>
       ELSE /\ store_tags' = TagStore_update_tag(store_tags, tid, body.address)
            /\ patch_req' = [tag_id |-> tid, body |-> body, before |-> TagResponse(tid)]
            /\ step' = Step("patch_tag", "", "update_tag", 0, 0)
    /\ UNCHANGED <<patchIdle, ua_nodes, store_values, opc_tasks, opcua_vars>>

\* the rest of that PATCH: ts.set_value under the lock again, the node
\* update submitted to the loop, and the response
patch_tag_value ==
    /\ patch_req # NoPatch
    /\ Len(opc_tasks) < MaxTasks
    /\ store_values' = set_value(store_values, patch_req.tag_id, "patched")
    /\ opc_tasks' = [schedule_on_opc_loop(opc_tasks, "update", patch_req.tag_id)
                       EXCEPT ![Len(opc_tasks) + 1].val = "patched"]
    /\ patch_req' = NoPatch
    /\ step' = Step("patch_tag", "", "200", 0, 0)
    /\ UNCHANGED <<patchIdle, ua_nodes, store_tags, opcua_vars>>

NextPatch ==
    \/ StartServer
    \/ MirrorNodes
    \/ \E tid \in TagIds : get_tag(tid)
    \/ \E tid \in TagIds, body \in PatchBodies : patch_tag(tid, body)
    \/ \E tid \in TagIds : patch_tag_update(tid, PatchBoth)
    \/ patch_tag_value
    \/ \E i \in 1..MaxTasks : UpdateNode(i)

SpecPatch == InitBridge /\ [][NextPatch]_vars

\* C35: a GET /tags/<tag_id> that runs while a PATCH with a metadata field
\* and a value is being applied to the tag never answers with the new
\* metadata and the old value, nor with the old metadata and the new value.
C35_NoPartialPatch ==
    [][\A tid \in TagIds :
         (step'.op = "get_tag" /\ step'.path = "200" /\ patch_req # NoPatch
            /\ patch_req.tag_id = tid /\ get_tag(tid))
           => LET seen == TagResponse(tid)
                  old == patch_req.before
                  new == [address |-> patch_req.body.address, value |-> "patched"]
              IN /\ ~(seen.address = new.address /\ seen.address # old.address
                        /\ seen.value = old.value /\ seen.value # new.value)
                 /\ ~(seen.value = new.value /\ seen.value # old.value
                        /\ seen.address = old.address /\ seen.address # new.address)]_vars

----------------------------------------------------------------------------
(* The values handed to the OPC UA variables, with their types *)

VT_Boolean == "Boolean"
VT_UInt32 == "UInt32"
VT_Int64 == "Int64"
VT_Float == "Float"
VT_Double == "Double"
VT_String == "String"
VT_None == "None"      \* vartype=None

\* _dtype_to_variant, and the same chain in _create_opcua_node_async
DtypeToVariant(dt) ==
    IF dt = <<>> THEN VT_Double
    ELSE LET d == Lower(dt)
         IN IF Contains(d, <<"b", "o", "o", "l">>) THEN VT_Boolean
            ELSE IF Contains(d, <<"u", "i", "n", "t">>) THEN VT_UInt32
            ELSE IF Contains(d, <<"i", "n", "t">>) THEN VT_Int64
            ELSE IF Contains(d, <<"f", "l", "o", "a", "t">>) THEN VT_Float
            ELSE IF Contains(d, <<"d", "o", "u", "b", "l", "e">>) THEN VT_Double
            ELSE IF Contains(d, <<"s", "t", "r">>) THEN VT_String
            ELSE VT_Double

RECURSIVE Pow10(_)
Pow10(n) == IF n = 0 THEN 1 ELSE 10 * Pow10(n - 1)

\* _normalize_for_opc: a Decimal becomes an int for an Int64 or UInt32
\* variable, a bool for a Boolean variable and a float otherwise, also when
\* no vartype is given; every other value passes through
NormalizeForOpc(value, vartype) ==
    IF value.k = "decimal"
    THEN IF vartype \in {VT_Int64, VT_UInt32} THEN VInt(value.c \div Pow10(value.e))
         ELSE IF vartype = VT_Boolean THEN VBool(value.c # 0)
         ELSE VFloat(Normal(value.c, value.e).c, Normal(value.c, value.e).e)
    ELSE value

\* Tag.scale_mul, 1.0 unless a request set it
ScaleMul(tag) == IF "scale_mul" \in DOMAIN tag THEN tag.scale_mul ELSE 1

\* TagStore.get_value with scale_add 0.0 and decimals None: the raw value
\* times Decimal(str(float(scale_mul))), which has one decimal place
ScaledValue(raw, tag) ==
    IF raw.k = "none" THEN VNone
    ELSE IF tag = NoTag THEN raw
    ELSE IF raw.k = "bool" \/ StartsWith(Lower(tag.data_type), <<"b", "o", "o", "l">>)
    THEN raw
    ELSE IF ScaleMul(tag) = 1
    THEN IF CanDecimal(raw) THEN VDecimal(raw.c, raw.e) ELSE raw
    ELSE IF CanDecimal(raw) THEN VDecimal(raw.c * (ScaleMul(tag) * 10), raw.e + 1)
    ELSE raw

\* tag_store.get_value(tid)
GetScaled(tid) == ScaledValue(ts_values[tid], ts_tags[tid])

\* opcua_vars[tid] = node, the node being of variant type vtype and val the
\* value last handed to it
SetTypedNode(nodes, tid, vtype, val) ==
    IF HasNode(nodes, tid)
    THEN [i \in 1..Len(nodes) |->
            IF nodes[i].tag_id = tid THEN [tag_id |-> tid, vtype |-> vtype, value |-> val]
            ELSE nodes[i]]
    ELSE Append(nodes, [tag_id |-> tid, vtype |-> vtype, value |-> val])

NodeOf(nodes, tid) == nodes[CHOOSE i \in 1..Len(nodes) : nodes[i].tag_id = tid]

opcIdle == <<envVars, patch_req, readVars, stopVars, backoff_arg, backoff_ret, mirror_todo, now,
             plc_health, driver, store_tags, store_values, pc, pending, shutdown_event,
             shutdown_scheduled, server_ready, plc_last_update, ready_file_writes, cycles,
             held>>

\* the values of a JSON "value" a PATCH carries
PatchValues == {VNone, VInt(5)}

\* the scale_mul a PATCH carries, 0 when the body has none
PatchMuls == {0, 2}

\* what a controller read stores
ReadValues == {VInt(7)}

\* _create_opcua_node_async: the value is get_value normalized for the
\* variant type of the tag's data type
opc_create_node(i) ==
    /\ IsNext(i)
    /\ opc_tasks[i].coro = "create"
    /\ ua_nodes[opc_tasks[i].tag_id] < MaxNodes
    /\ LET tid == opc_tasks[i].tag_id
           vtype == DtypeToVariant(IF ts_tags[tid] = NoTag THEN <<>> ELSE ts_tags[tid].data_type)
       IN /\ opcua_vars' = SetTypedNode(opcua_vars, tid, vtype,
                                        NormalizeForOpc(GetScaled(tid), vtype))
          /\ ua_nodes' = [ua_nodes EXCEPT ![tid] = @ + 1]
    /\ opc_tasks' = DropTask(i)
    /\ step' = Step("_create_opcua_node_async", "", "write", 0, 0)
    /\ UNCHANGED <<opcIdle, ts_tags, ts_values, write_todo>>

\* PATCH /tags/<tag_id> with scale_mul, a value or both: the payload's value
\* goes to the store and, as it is, to _update_opcua_value_async
opc_patch_tag(tid, mul, value) ==
    /\ Len(opc_tasks) < MaxTasks
    /\ mul # 0 \/ value # VNone
    /\ IF tid \notin TypedIds
       THEN /\ step' = Step("PATCH", "", "404", 0, 0)
            /\ UNCHANGED <<ts_tags, ts_values, opc_tasks>>
       ELSE /\ ts_tags' = IF mul # 0
                          THEN [ts_tags EXCEPT ![tid] =
                                  [present |-> TRUE, data_type |-> ts_tags[tid].data_type,
                                   scale_mul |-> mul]]
                          ELSE ts_tags
            /\ ts_values' = IF value # VNone THEN [ts_values EXCEPT ![tid] = value]
                            ELSE ts_values
            /\ opc_tasks' = IF value # VNone
                            THEN [schedule_on_opc_loop(opc_tasks, "update", tid)
                                    EXCEPT ![Len(opc_tasks) + 1].val = value]
                            ELSE opc_tasks
            /\ step' = Step("PATCH", "", "200", 0, 0)
    /\ UNCHANGED <<opcIdle, ua_nodes, opcua_vars, write_todo>>

\* _update_opcua_value_async(tag_id, value)
opc_update_value(i) ==
    /\ IsNext(i)
    /\ opc_tasks[i].coro = "update"
    /\ LET tid == opc_tasks[i].tag_id
       IN IF HasNode(opcua_vars, tid)
          THEN /\ opcua_vars' = SetTypedNode(opcua_vars, tid, NodeOf(opcua_vars, tid).vtype,
                                             NormalizeForOpc(opc_tasks[i].val, VT_None))
               /\ step' = Step("_update_opcua_value_async", "", "write", 0, 0)
          ELSE /\ step' = Step("_update_opcua_value_async", "", "no node", 0, 0)
               /\ UNCHANGED opcua_vars
    /\ opc_tasks' = DropTask(i)
    /\ UNCHANGED <<opcIdle, ua_nodes, ts_tags, ts_values, write_todo>>

\* plc_data_poller, step 3: "for tid, node in list(opcua_vars.items())"
opc_poll_begin ==
    /\ opcua_loop_set
    /\ write_todo = <<>>
    /\ opcua_vars # <<>>
    /\ write_todo' = opcua_vars
    /\ step' = Step("plc_data_poller", "", "items", 0, 0)
    /\ UNCHANGED <<opcIdle, ua_nodes, ts_tags, ts_values, opc_tasks, opcua_vars>>

\* one turn of that loop: get_value, _normalize_for_opc(val, None), write_value
opc_poll_write ==
    /\ write_todo # <<>>
    /\ LET tid == Head(write_todo).tag_id
       IN opcua_vars' = SetTypedNode(opcua_vars, tid, Head(write_todo).vtype,
                                     NormalizeForOpc(GetScaled(tid), VT_None))
    /\ write_todo' = Tail(write_todo)
    /\ step' = Step("plc_data_poller", "", "write", 0, 0)
    /\ UNCHANGED <<opcIdle, ua_nodes, ts_tags, ts_values, opc_tasks>>

\* the tag that owns the variable the step wrote to
WroteTo(tid) ==
    /\ step'.path = "write"
    /\ \/ /\ step'.op = "plc_data_poller"
          /\ write_todo # <<>> /\ Head(write_todo).tag_id = tid
       \/ /\ step'.op \in {"_create_opcua_node_async", "_update_opcua_value_async"}
          /\ \E i \in 1..Len(opc_tasks) : IsNext(i) /\ opc_tasks[i].tag_id = tid

\* the value the step had in hand before _normalize_for_opc
Source(tid) ==
    IF step'.op = "_update_opcua_value_async"
    THEN opc_tasks[CHOOSE i \in 1..Len(opc_tasks) : IsNext(i)].val
    ELSE GetScaled(tid)

NextOpc ==
    \/ StartServer
    \/ MirrorNodes
    \/ \E dt \in {DT_Int32, DT_Double} : api_add_tag(TagOrder[1], dt, VNone)
    \/ \E i \in 1..MaxTasks : opc_create_node(i)
    \/ \E mul \in PatchMuls, v \in PatchValues : opc_patch_tag(TagOrder[1], mul, v)
    \/ \E i \in 1..MaxTasks : opc_update_value(i)
    \/ \E v \in ReadValues : ts_set_value(TagOrder[1], v)
    \/ opc_poll_begin
    \/ opc_poll_write

SpecOpc == InitStore /\ [][NextOpc]_vars

\* C31: whenever a step hands a value to a variable of an integer variant
\* type or of type Boolean, on node creation, in the poll cycle or for a REST
\* value update, and the value it had in hand was a decimal, the value handed
\* over is an int, respectively a bool, and no float.
C31_DecimalCoercion ==
    [][\A tid \in TagIds :
         (WroteTo(tid) /\ Source(tid).k = "decimal")
           => LET node == NodeOf(opcua_vars', tid)
              IN /\ node.vtype \in {VT_Int64, VT_UInt32} => node.value.k = "int"
                 /\ node.vtype = VT_Boolean => node.value.k = "bool"]_vars

\* two values are the same number, or the same value
SameValue(a, b) ==
    IF CanDecimal(a) /\ CanDecimal(b) /\ a.k # "str" /\ b.k # "str"
    THEN Normal(a.c, a.e) = Normal(b.c, b.e)
    ELSE a = b

\* C32: the value the poll cycle or a REST value update hands to a tag's
\* variable is the value get_value(tag_id) returns at that moment, scaled by
\* the tag's scale_mul.
C32_ScaledValueWritten ==
    [][\A tid \in TagIds :
         (WroteTo(tid) /\ step'.op \in {"plc_data_poller", "_update_opcua_value_async"})
           => SameValue(NodeOf(opcua_vars', tid).value,
                        NormalizeForOpc(GetScaled(tid), VT_None))]_vars

====
